---------------------------- MODULE Spec2Model ----------------------------
(***************************************************************************)
(* LabPulse: the task board's store (App.tsx `data`), the task modal, the  *)
(* experiment-details modal with its plan quick-edit, the wizard's plan    *)
(* expansion, the assistant's confirmed actions, and the dependency /      *)
(* calendar helpers of utils.ts.                                           *)
(*                                                                         *)
(* Dates.  A 'yyyy-MM-dd' string is modelled by its day number; day 0 is a *)
(* Sunday, so d % 7 is the weekday (0 = Sunday).  parseISO and format are  *)
(* inverse to each other on valid dates.  The empty string '' (a cleared   *)
(* date input, an absent endDate) is EmptyDate; parseISO('') is an Invalid *)
(* Date, and format() of an Invalid Date throws a RangeError.              *)
(*                                                                         *)
(* Ids.  generateUUID is modelled by per-kind counters (never reused).     *)
(*                                                                         *)
(* Records.  A Task carries id, experimentId, weekId, completed and        *)
(* dependencies; its title, description, status, importance, tags,         *)
(* attachments, recurrenceGroupId and planTaskId are opaque to the board's *)
(* handlers and are left out there, and so are the edits of them; the      *)
(* wizard's expansion sets title, recurrenceGroupId and planTaskId, and    *)
(* its tasks carry them.  An Experiment carries id, startDate, endDate.    *)
(***************************************************************************)
EXTENDS Integers, Sequences, FiniteSets, TLC

VARIABLES
    data,           \* App.tsx useState<AppData>: [experiments, tasks]
    storage,        \* the snapshot last handed to persistence by the save effect
    view,           \* which modal is mounted: "board" | "task" | "details" | "detailsTask" | "import"
    editedTask,     \* TaskModal's editedTask state (NoTask when unmounted)
    selectedExperiment, \* App.tsx selectedExperiment, the details modal's `experiment` prop
    isEditingPlan,  \* ExperimentDetailsModal isEditingPlan
    planRows,       \* ExperimentDetailsModal planRows
    rowEdits,       \* number of handleRowChange calls in this quick-edit session
    importCandidate,\* App.tsx importCandidate
    alert,          \* the window.alert raised by the last handler ("" when none)
    lastOp,         \* the handler that made the last step, with its arguments
    uuid,           \* generateUUID counters: [task, experiment]
    session,        \* what this run of the app is driven with (fixed from Init on)
    pendingAction,  \* TableAiAssistant's pendingAction (NoAction when null)
    cloud,          \* the signed-in user, isCloudSynced, and the Firestore side
    probe           \* input/output of a pure helper under test

vars == <<data, storage, view, editedTask, selectedExperiment, isEditingPlan,
          planRows, rowEdits, importCandidate, alert, lastOp, uuid, session,
          pendingAction, cloud, probe>>

-----------------------------------------------------------------------------
(* Bounds of the model *)

MaxTasks == 2
MaxExperiments == 2
MaxWeek == 2
MaxRowEdits == 1

EmptyDate == 0 - 1
MaxDay == 7 * MaxWeek + 6
Weeks == {7 * w : w \in 0..MaxWeek}
Days == 0..MaxDay

NoTask == [id |-> 0]
NoExperiment == [id |-> 0]
NoProbe == [fn |-> "none"]
NoCandidate == [present |-> FALSE]
NoAction == [action |-> "null"]
\* no user is signed in and nothing of the cloud is in play
NoCloud == [user |-> 0]

(* A session fixes what one run of the app is driven with: how many tasks  *)
(* and experiments the user creates, and whether the plan quick-edit and   *)
(* the JSON import are used in it.                                         *)
Sessions ==
    { [tasks |-> MaxTasks, experiments |-> 1, quickEdit |-> TRUE, import |-> TRUE],
      [tasks |-> MaxTasks, experiments |-> MaxExperiments,
       quickEdit |-> FALSE, import |-> FALSE] }

(* Inputs the handlers are driven with *)

WizardDates == {[startDate |-> 0, endDate |-> EmptyDate],
                [startDate |-> 3, endDate |-> 10]}
DraftPlans == {<<>>, <<0>>, <<1, 0>>}
ShiftDeltas == {0 - 1, 0, 1}
\* parseInt('') of the cleared number input
NaN == 0 - 1000
ShiftInputs == ShiftDeltas \cup {NaN}
OffsetInputs == 0..MaxWeek
DateInputs == {EmptyDate, 10}

ImportFiles ==
    { [experiments |-> <<[id |-> 1, startDate |-> 0, endDate |-> EmptyDate]>>,
       tasks |-> <<[id |-> 1, experimentId |-> 1, weekId |-> 0,
                    completed |-> TRUE, dependencies |-> <<2>>],
                   [id |-> 2, experimentId |-> 1, weekId |-> 7,
                    completed |-> FALSE, dependencies |-> <<1>>]>>],
      [experiments |-> <<[id |-> 2, startDate |-> 3, endDate |-> 10]>>,
       tasks |-> <<[id |-> 3, experimentId |-> 2, weekId |-> 7,
                    completed |-> FALSE, dependencies |-> <<4>>],
                   [id |-> 3, experimentId |-> 2, weekId |-> 0,
                    completed |-> FALSE, dependencies |-> <<>>],
                   [id |-> 4, experimentId |-> 1, weekId |-> 0,
                    completed |-> FALSE, dependencies |-> <<>>]>>] }

-----------------------------------------------------------------------------
(* Sequence helpers (Array.prototype.filter / map / includes / find) *)

Filter(s, Keep(_)) == SelectSeq(s, Keep)

Map(s, F(_)) == [i \in 1..Len(s) |-> F(s[i])]

Includes(s, x) == \E i \in 1..Len(s) : s[i] = x

Range(s) == {s[i] : i \in 1..Len(s)}

\* index of the first element satisfying P, 0 when none (findIndex, find)
FindIndex(s, P(_)) ==
    IF \E i \in 1..Len(s) : P(s[i])
    THEN CHOOSE i \in 1..Len(s) : P(s[i]) /\ \A j \in 1..(i - 1) : ~P(s[j])
    ELSE 0

-----------------------------------------------------------------------------
(* utils.ts: calendar helpers *)

isValid(d) == d # EmptyDate

\* a sum that never goes before day 0
addWeeksFromEpoch(d, n) ==
    IF isValid(d) /\ n # NaN
    THEN (IF d + 7 * n < 0 THEN 0 ELSE d + 7 * n)
    ELSE EmptyDate

\* an Invalid Date for an Invalid Date or a NaN amount
addWeeks(d, n) == IF isValid(d) /\ n # NaN THEN d + 7 * n ELSE EmptyDate

\* startOfWeek with weekStartsOn: 1 in place of 0
normalizeToMonday(d) == d - ((d + 6) % 7)

\* startOfWeek(d, {weekStartsOn: 0}) formatted back; defined on valid dates,
\* the callers model the RangeError of an invalid one
normalizeToSunday(d) == d - (d % 7)

\* date-fns differenceInWeeks: full weeks between, truncated towards zero
differenceInWeeks(later, earlier) ==
    LET diff == later - earlier
    IN IF diff >= 0 THEN diff \div 7 ELSE 0 - ((0 - diff) \div 7)

\* string comparison a < b of two 'yyyy-MM-dd' strings or ''
DateLess(a, b) == a < b

-----------------------------------------------------------------------------
(* utils.ts: dependency helpers *)

\* new Map(); allTasks.forEach(t => adj.set(t.id, [...t.dependencies])):
\* of two tasks with one id the later one's list stays
AdjOf(allTasks) ==
    [k \in {allTasks[i].id : i \in 1..Len(allTasks)} |->
        allTasks[CHOOSE i \in 1..Len(allTasks) :
                    /\ allTasks[i].id = k
                    /\ \A j \in (i + 1)..Len(allTasks) : allTasks[j].id # k].dependencies]

\* adj.get(k) || []
AdjGet(adj, k) == IF k \in DOMAIN adj THEN adj[k] ELSE <<>>

\* adj.set(k, v)
AdjSet(adj, k, v) == [x \in (DOMAIN adj) \cup {k} |-> IF x = k THEN v ELSE adj[x]]

\* the closure isCyclic with its two Sets threaded through as st;
\* forNeighbors is its `for (const neighbor of neighbors)` loop from index i
RECURSIVE isCyclic(_, _, _), forNeighbors(_, _, _, _)
isCyclic(adj, curr, st) ==
    LET entered == [found   |-> FALSE,
                    visited |-> st.visited \cup {curr},
                    stack   |-> st.stack \cup {curr}]
        r == forNeighbors(adj, AdjGet(adj, curr), 1, entered)
    IN IF r.found THEN r ELSE [r EXCEPT !.stack = r.stack \ {curr}]

\* the loop without the recursionStack test: a visited neighbor counts as a cycle
forNeighborsNoStack(adj, neighbors, i, st) ==
    IF i > Len(neighbors) THEN st
    ELSE LET neighbor == neighbors[i]
         IN IF neighbor \notin st.visited
            THEN LET r == isCyclic(adj, neighbor, st)
                 IN IF r.found THEN r ELSE forNeighbors(adj, neighbors, i + 1, r)
            ELSE [st EXCEPT !.found = TRUE]

forNeighbors(adj, neighbors, i, st) ==
    IF i > Len(neighbors) THEN st
    ELSE LET neighbor == neighbors[i]
         IN IF neighbor \notin st.visited
            THEN LET r == isCyclic(adj, neighbor, st)
                 IN IF r.found THEN r ELSE forNeighbors(adj, neighbors, i + 1, r)
            ELSE IF neighbor \in st.stack
                 THEN [st EXCEPT !.found = TRUE]
                 ELSE forNeighbors(adj, neighbors, i + 1, st)

\* a guard that looks for the reverse edge only
hasDirectCycleOnly(allTasks, taskId, newDependencyId) ==
    \/ taskId = newDependencyId
    \/ Includes(AdjGet(AdjOf(allTasks), newDependencyId), taskId)

\* a guard that stops after its first test
hasSelfDependencyOnly(allTasks, taskId, newDependencyId) ==
    taskId = newDependencyId

hasCircularDependency(allTasks, taskId, newDependencyId) ==
    IF taskId = newDependencyId THEN TRUE
    ELSE LET adj0 == AdjOf(allTasks)
             adj  == AdjSet(adj0, taskId, Append(AdjGet(adj0, taskId), newDependencyId))
         IN isCyclic(adj, taskId, [found |-> FALSE, visited |-> {}, stack |-> {}]).found

\* `!dep || !dep.completed` in place of `dep && !dep.completed`
isTaskBlockedByMissing(task, allTasks) ==
    IF Len(task.dependencies) = 0 THEN FALSE
    ELSE \E k \in 1..Len(task.dependencies) :
            LET depId == task.dependencies[k]
                ix == FindIndex(allTasks, LAMBDA t : t.id = depId)
            IN ix = 0 \/ ~allTasks[ix].completed

isTaskBlocked(task, allTasks) ==
    IF Len(task.dependencies) = 0 THEN FALSE
    ELSE \E k \in 1..Len(task.dependencies) :
            LET depId == task.dependencies[k]
                ix == FindIndex(allTasks, LAMBDA t : t.id = depId)
            IN ix # 0 /\ ~allTasks[ix].completed

-----------------------------------------------------------------------------
(* App.tsx: the store's handlers, each as the function its setData applies *)

OfExperiment(tasks, id) == Filter(tasks, LAMBDA t : t.experimentId = id)

handleSaveExperiment(prev, experiment, tasks) ==
    [experiments |-> Append(prev.experiments, experiment),
     tasks       |-> prev.tasks \o tasks]

\* called with updatedTasks = <<>> where the code passes none: both leave tasks as is
handleUpdateExperiment(prev, updatedExp, updatedTasks) ==
    LET updatedIds == {updatedTasks[i].id : i \in 1..Len(updatedTasks)}
        otherTasks == Filter(prev.tasks, LAMBDA t : t.id \notin updatedIds)
    IN [experiments |-> Map(prev.experiments,
                            LAMBDA e : IF e.id = updatedExp.id THEN updatedExp ELSE e),
        tasks       |-> otherTasks \o updatedTasks]

handleDeleteExperiment(prev, id) ==
    [experiments |-> Filter(prev.experiments, LAMBDA e : e.id # id),
     tasks       |-> Filter(prev.tasks, LAMBDA t : t.experimentId # id)]

handleResetExperimentTasks(prev, id) ==
    [prev EXCEPT !.tasks = Filter(prev.tasks, LAMBDA t : t.experimentId # id)]

\* format() of an Invalid Date throws inside the updater: a task to move whose
\* weekId is '', or a NaN amount where there is a date to move
ShiftThrows(prev, experimentId, weeksToShift) ==
    \/ \E i \in 1..Len(prev.tasks) :
        /\ prev.tasks[i].experimentId = experimentId
        /\ ~prev.tasks[i].completed
        /\ ~isValid(addWeeks(prev.tasks[i].weekId, weeksToShift))
    \/ \E i \in 1..Len(prev.experiments) :
        /\ prev.experiments[i].id = experimentId
        /\ prev.experiments[i].endDate # EmptyDate
        /\ ~isValid(addWeeks(prev.experiments[i].endDate, weeksToShift))

\* the same with the `!t.completed` test left out
handleShiftAllTasks(prev, experimentId, weeksToShift) ==
    [experiments |->
        Map(prev.experiments,
            LAMBDA e : IF e.id = experimentId /\ e.endDate # EmptyDate
                       THEN [e EXCEPT !.endDate =
                                normalizeToSunday(addWeeks(e.endDate, weeksToShift))]
                       ELSE e),
     tasks |->
        Map(prev.tasks,
            LAMBDA t : IF t.experimentId = experimentId /\ isValid(t.weekId)
                       THEN [t EXCEPT !.weekId =
                                normalizeToSunday(addWeeks(t.weekId, weeksToShift))]
                       ELSE t)]

\* the same with the experiments left as they are
handleShiftTasksOnly(prev, experimentId, weeksToShift) ==
    [prev EXCEPT !.tasks =
        Map(prev.tasks,
            LAMBDA t : IF t.experimentId = experimentId /\ ~t.completed
                       THEN [t EXCEPT !.weekId =
                                normalizeToSunday(addWeeks(t.weekId, weeksToShift))]
                       ELSE t)]

\* the updater of handleShiftExperimentTimeline; where it throws no state is set
handleShiftExperimentTimeline(prev, experimentId, weeksToShift) ==
    IF ShiftThrows(prev, experimentId, weeksToShift) THEN prev
    ELSE [experiments |->
            Map(prev.experiments,
                LAMBDA e : IF e.id = experimentId
                           THEN [e EXCEPT !.endDate =
                                    IF e.endDate # EmptyDate
                                    THEN normalizeToSunday(addWeeks(e.endDate, weeksToShift))
                                    ELSE EmptyDate]
                           ELSE e),
          tasks |->
            Map(prev.tasks,
                LAMBDA t : IF t.experimentId = experimentId /\ ~t.completed
                           THEN [t EXCEPT !.weekId =
                                    normalizeToSunday(addWeeks(t.weekId, weeksToShift))]
                           ELSE t)]

\* the update branch alone: a task that is not stored yet is not appended
handleUpdateTaskMapOnly(cur, updatedTask) ==
    [experiments |-> cur.experiments,
     tasks |-> Map(cur.tasks,
                   LAMBDA t : IF t.id = updatedTask.id THEN updatedTask ELSE t)]

\* the master-plan sync of lines 346-376 rewrites only opaque plan fields
handleUpdateTask(cur, updatedTask) ==
    LET existingIndex == FindIndex(cur.tasks, LAMBDA t : t.id = updatedTask.id)
    IN [experiments |-> cur.experiments,
        tasks |-> IF existingIndex = 0
                  THEN Append(cur.tasks, updatedTask)
                  ELSE Map(cur.tasks,
                           LAMBDA t : IF t.id = updatedTask.id THEN updatedTask ELSE t)]

\* the filter alone, without the cleanup of the other tasks' dependencies
handleDeleteTaskOnly(prev, taskId) ==
    [prev EXCEPT !.tasks = Filter(prev.tasks, LAMBDA t : t.id # taskId)]

handleDeleteTask(prev, taskId) ==
    LET remainingTasks == Filter(prev.tasks, LAMBDA t : t.id # taskId)
    IN [prev EXCEPT !.tasks =
            Map(remainingTasks,
                LAMBDA t : IF Includes(t.dependencies, taskId)
                           THEN [t EXCEPT !.dependencies =
                                    Filter(t.dependencies, LAMBDA d : d # taskId)]
                           ELSE t)]

-----------------------------------------------------------------------------
(* utils.ts validateAndMigrateAppData and App.tsx handleMergeImport.  The  *)
(* files drawn here give every record its id and fields, so the `||`       *)
(* defaults of the sanitizer are not exercised.                            *)

\* imported.tasks.reduce(...) from index i with the accumulator acc and the
\* ids seen so far
RECURSIVE CleanTasks(_, _, _, _, _)
\* the reduce without the processedTaskIds test
CleanTasksKeepDuplicates(tasks, i, validExpIds, processedTaskIds, acc) ==
    IF i > Len(tasks) THEN acc
    ELSE LET t == tasks[i]
         IN IF t.experimentId \notin validExpIds
            THEN CleanTasks(tasks, i + 1, validExpIds,
                            processedTaskIds \cup {t.id}, acc)
            ELSE CleanTasks(tasks, i + 1, validExpIds,
                            processedTaskIds \cup {t.id}, Append(acc, t))

CleanTasks(tasks, i, validExpIds, processedTaskIds, acc) ==
    IF i > Len(tasks) THEN acc
    ELSE LET t == tasks[i]
         IN IF t.id \in processedTaskIds
            THEN CleanTasks(tasks, i + 1, validExpIds, processedTaskIds, acc)
            ELSE IF t.experimentId \notin validExpIds
                 THEN CleanTasks(tasks, i + 1, validExpIds,
                                 processedTaskIds \cup {t.id}, acc)
                 ELSE CleanTasks(tasks, i + 1, validExpIds,
                                 processedTaskIds \cup {t.id}, Append(acc, t))

validateAndMigrateAppData(imported) ==
    LET cleanExperiments == imported.experiments
        validExpIds == {cleanExperiments[i].id : i \in 1..Len(cleanExperiments)}
    IN [experiments |-> cleanExperiments,
        tasks       |-> CleanTasks(imported.tasks, 1, validExpIds, {}, <<>>)]

\* expIdMap.get(id): the new id of the last imported experiment carrying id
ExpIdMap(candidate, firstNew, id) ==
    LET hits == {i \in 1..Len(candidate.experiments) : candidate.experiments[i].id = id}
    IN IF hits = {} THEN 0
       ELSE firstNew + (CHOOSE i \in hits : \A j \in hits : j <= i)

\* the merge without new task ids: the imported tasks keep the ids of the file
handleMergeImportKeepIds(prev, candidate, ids) ==
    LET newExperiments ==
            [i \in 1..Len(candidate.experiments) |->
                [candidate.experiments[i] EXCEPT !.id = ids.experiment + i]]
        mapped == Filter(candidate.tasks,
                         LAMBDA t : ExpIdMap(candidate, ids.experiment, t.experimentId) # 0)
        newTasks ==
            [i \in 1..Len(mapped) |->
                [mapped[i] EXCEPT !.experimentId =
                                      ExpIdMap(candidate, ids.experiment, mapped[i].experimentId),
                                  !.dependencies = <<>>]]
    IN [experiments |-> prev.experiments \o newExperiments,
        tasks       |-> prev.tasks \o newTasks]

\* ids holds the generateUUID counters before the call
handleMergeImport(prev, candidate, ids) ==
    LET newExperiments ==
            [i \in 1..Len(candidate.experiments) |->
                [candidate.experiments[i] EXCEPT !.id = ids.experiment + i]]
        mapped == Filter(candidate.tasks,
                         LAMBDA t : ExpIdMap(candidate, ids.experiment, t.experimentId) # 0)
        newTasks ==
            [i \in 1..Len(mapped) |->
                [mapped[i] EXCEPT !.id = ids.task + i,
                                  !.experimentId =
                                      ExpIdMap(candidate, ids.experiment, mapped[i].experimentId),
                                  !.dependencies = <<>>]]
    IN [experiments |-> prev.experiments \o newExperiments,
        tasks       |-> prev.tasks \o newTasks]

-----------------------------------------------------------------------------
(* ExperimentWizard.handleFinish for drafts without a recurrence *)

\* ids holds the generateUUID counters before the call
handleFinish(startDate, endDate, drafts, ids) ==
    LET experimentId == ids.experiment + 1
    IN [experiment |-> [id |-> experimentId, startDate |-> startDate, endDate |-> endDate],
        tasks |-> [i \in 1..Len(drafts) |->
                    [id           |-> ids.task + i,
                     experimentId |-> experimentId,
                     weekId       |-> normalizeToSunday(addWeeks(startDate, drafts[i])),
                     completed    |-> FALSE,
                     dependencies |-> <<>>]]]

-----------------------------------------------------------------------------
(* ExperimentDetailsModal: the plan rows *)

\* Array.prototype.sort by weekId (stable; the importance tie-break is opaque):
\* s[i] goes after the elements before it that are not later than it
RECURSIVE SortByWeek(_)
SortByWeek(s) ==
    IF Len(s) <= 1 THEN s
    ELSE LET rest == SortByWeek(SubSeq(s, 1, Len(s) - 1))
             x == s[Len(s)]
             k == Cardinality({i \in 1..Len(rest) : rest[i].weekId <= x.weekId})
         IN SubSeq(rest, 1, k) \o <<x>> \o SubSeq(rest, k + 1, Len(rest))

\* the useEffect of lines 233-271
BuildRows(tasks, experiment) ==
    LET experimentTasks == SortByWeek(OfExperiment(tasks, experiment.id))
    IN Map(experimentTasks,
           LAMBDA t : [actualTaskId |-> t.id,
                       weekOffset   |-> IF isValid(experiment.startDate) /\ isValid(t.weekId)
                                        THEN differenceInWeeks(t.weekId, experiment.startDate)
                                        ELSE 0,
                       actualDate   |-> t.weekId])

handleRowChange(rows, edited, index, field, value) ==
    LET row0 == rows[index]
        row == CASE field = "weekOffset" ->
                        IF isValid(edited.startDate)
                        THEN [row0 EXCEPT !.weekOffset = value,
                                          !.actualDate =
                                              normalizeToSunday(addWeeks(edited.startDate, value))]
                        ELSE [row0 EXCEPT !.weekOffset = value]
                 [] field = "actualDate" ->
                        IF isValid(edited.startDate) /\ isValid(value)
                        THEN [row0 EXCEPT !.actualDate = value,
                                          !.weekOffset =
                                              differenceInWeeks(value, edited.startDate)]
                        ELSE [row0 EXCEPT !.actualDate = value]
    IN [rows EXCEPT ![index] = row]

\* the updatedTasks of savePlanChanges
PlanTasks(rows, tasks, experiment) ==
    LET experimentTasks == OfExperiment(tasks, experiment.id)
        found == Filter(rows, LAMBDA r :
                    FindIndex(experimentTasks, LAMBDA t : t.id = r.actualTaskId) # 0)
    IN Map(found,
           LAMBDA r :
               LET originalTask ==
                       experimentTasks[FindIndex(experimentTasks,
                                                 LAMBDA t : t.id = r.actualTaskId)]
               IN [originalTask EXCEPT !.weekId = r.actualDate])

-----------------------------------------------------------------------------
(* TaskModal *)

\* the picker without its experimentId test
availableTasksAnyExperiment(allTasks, edited) ==
    Filter(allTasks,
           LAMBDA t : /\ t.id # edited.id
                      /\ ~Includes(edited.dependencies, t.id)
                      /\ DateLess(t.weekId, edited.weekId))

availableTasks(allTasks, edited) ==
    Filter(allTasks,
           LAMBDA t : /\ t.id # edited.id
                      /\ ~Includes(edited.dependencies, t.id)
                      /\ t.experimentId = edited.experimentId
                      /\ DateLess(t.weekId, edited.weekId))

\* TRUE where handleAddDependency takes its alert-and-return branch
AddDependencyRejected(allTasks, edited, taskId) ==
    /\ ~Includes(edited.dependencies, taskId)
    /\ hasCircularDependency(allTasks, edited.id, taskId)

\* the alert without the `return` after it
handleAddDependencyNoReturn(allTasks, edited, taskId) ==
    IF ~Includes(edited.dependencies, taskId)
    THEN [edited EXCEPT !.dependencies = Append(edited.dependencies, taskId)]
    ELSE edited

handleAddDependency(allTasks, edited, taskId) ==
    IF ~Includes(edited.dependencies, taskId)
    THEN IF hasCircularDependency(allTasks, edited.id, taskId)
         THEN edited
         ELSE [edited EXCEPT !.dependencies = Append(edited.dependencies, taskId)]
    ELSE edited

handleRemoveDependency(edited, taskId) ==
    [edited EXCEPT !.dependencies = Filter(edited.dependencies, LAMBDA id : id # taskId)]

-----------------------------------------------------------------------------
(* The state machine *)

\* lastOp names the handler of the last step where that was a timeline shift
\* (ok: its updater returned), a task delete, a step of the board's task modal
\* or a file read; every other step leaves NoOp
Op(name, ok) == [name |-> name, ok |-> ok]
NoOp == Op("none", TRUE)

EmptyData == [experiments |-> <<>>, tasks |-> <<>>]

Init ==
    /\ data = EmptyData
    /\ storage = EmptyData
    /\ view = "board"
    /\ editedTask = NoTask
    /\ selectedExperiment = NoExperiment
    /\ isEditingPlan = FALSE
    /\ planRows = <<>>
    /\ rowEdits = 0
    /\ importCandidate = NoCandidate
    /\ alert = ""
    /\ lastOp = NoOp
    /\ uuid = [task |-> 0, experiment |-> 0]
    /\ session \in Sessions
    /\ pendingAction = NoAction
    /\ cloud = NoCloud
    /\ probe = NoProbe

\* setData(new) followed by the save effect of lines 181-193 (guest: local storage)
SetData(new) == data' = new /\ storage' = new

DetailsVars == <<selectedExperiment, isEditingPlan, planRows, rowEdits>>

ExperimentIds == {data.experiments[i].id : i \in 1..Len(data.experiments)}
TaskIds == {data.tasks[i].id : i \in 1..Len(data.tasks)}

\* the wizard's handleFinish and App's handleSaveExperiment
WizardFinish ==
    /\ view = "board"
    /\ uuid.experiment < session.experiments
    /\ \E basicData \in WizardDates, drafts \in DraftPlans :
        /\ uuid.task + Len(drafts) <= session.tasks
        /\ LET r == handleFinish(basicData.startDate, basicData.endDate, drafts, uuid)
           IN /\ SetData(handleSaveExperiment(data, r.experiment, r.tasks))
              /\ lastOp' = NoOp
        /\ uuid' = [task |-> uuid.task + Len(drafts), experiment |-> uuid.experiment + 1]
    /\ alert' = ""
    /\ UNCHANGED <<view, editedTask, DetailsVars, importCandidate, session, pendingAction, cloud, probe>>

\* Board onAddTask: a draft, not stored
BoardAddTask ==
    /\ view = "board"
    /\ uuid.task < session.tasks
    /\ \E experimentId \in ExperimentIds, weekId \in Weeks :
        /\ editedTask' = [id |-> uuid.task + 1, experimentId |-> experimentId,
                          weekId |-> weekId, completed |-> FALSE,
                          dependencies |-> <<>>]
        /\ lastOp' = Op("handleAddTask", TRUE)
    /\ uuid' = [uuid EXCEPT !.task = uuid.task + 1]
    /\ view' = "task"
    /\ alert' = ""
    /\ UNCHANGED <<data, storage, DetailsVars, importCandidate, session, pendingAction, cloud, probe>>

\* Board onEditTask
BoardEditTask ==
    /\ view = "board"
    /\ \E i \in 1..Len(data.tasks) :
        /\ editedTask' = data.tasks[FindIndex(data.tasks, LAMBDA t : t.id = data.tasks[i].id)]
        /\ lastOp' = NoOp
    /\ view' = "task"
    /\ alert' = ""
    /\ UNCHANGED <<data, storage, DetailsVars, importCandidate, uuid, session, pendingAction, cloud, probe>>

\* Board onOpenExperiment
OpenExperiment ==
    /\ view = "board"
    /\ \E i \in 1..Len(data.experiments) :
        LET e == data.experiments[FindIndex(data.experiments,
                                            LAMBDA x : x.id = data.experiments[i].id)]
        IN /\ selectedExperiment' = e
           /\ planRows' = BuildRows(data.tasks, e)
           /\ lastOp' = NoOp
    /\ view' = "details"
    /\ isEditingPlan' = FALSE
    /\ rowEdits' = 0
    /\ alert' = ""
    /\ UNCHANGED <<data, storage, editedTask, importCandidate, uuid, session, pendingAction, cloud, probe>>

-----------------------------------------------------------------------------
(* TaskModal, mounted by App (view "task") or by the details modal          *)
(* (view "detailsTask"); allTasks is the live data.tasks in both            *)

InTaskModal == view \in {"task", "detailsTask"}

\* the plan rows after a render of the details modal: its useEffect rebuilds
\* them unless isEditingPlan && !taskModalOpen
RowsAfter(rows, tasks, editing, taskModalOpen) ==
    IF editing /\ ~taskModalOpen THEN rows
    ELSE BuildRows(tasks, selectedExperiment)

EditCompleted ==
    /\ InTaskModal
    /\ editedTask' = [editedTask EXCEPT !.completed = ~editedTask.completed]
    /\ lastOp' = NoOp
    /\ alert' = ""
    /\ UNCHANGED <<data, storage, view, DetailsVars, importCandidate, uuid, session, pendingAction, cloud, probe>>

\* the <select> offers availableTasks; handleAddDependency(taskId)
AddDependencyOf(taskId) ==
    /\ InTaskModal
    /\ taskId \in Range(Map(availableTasks(data.tasks, editedTask), LAMBDA t : t.id))
    /\ editedTask' = handleAddDependency(data.tasks, editedTask, taskId)
    /\ alert' = IF AddDependencyRejected(data.tasks, editedTask, taskId)
                THEN "circularDependencyError" ELSE ""
    /\ lastOp' = NoOp
    /\ UNCHANGED <<data, storage, view, DetailsVars, importCandidate, uuid, session, pendingAction, cloud, probe>>

AddDependency == \E taskId \in TaskIds : AddDependencyOf(taskId)

\* the remove button is rendered for the dependencies that resolve in allTasks
RemoveDependency ==
    /\ InTaskModal
    /\ \E taskId \in Range(editedTask.dependencies) \cap TaskIds :
        /\ editedTask' = handleRemoveDependency(editedTask, taskId)
        /\ lastOp' = NoOp
    /\ alert' = ""
    /\ UNCHANGED <<data, storage, view, DetailsVars, importCandidate, uuid, session, pendingAction, cloud, probe>>

\* onSave(editedTask): App.handleUpdateTask
TaskSave ==
    /\ view = "task"
    /\ SetData(handleUpdateTask(data, editedTask))
    /\ lastOp' = Op("handleUpdateTask", TRUE)
    /\ view' = "board"
    /\ editedTask' = NoTask
    /\ alert' = ""
    /\ UNCHANGED <<DetailsVars, importCandidate, uuid, session, pendingAction, cloud, probe>>

\* onSave(editedTask): ExperimentDetailsModal.handleTaskModalSave
DetailsTaskSave ==
    /\ view = "detailsTask"
    /\ LET new == handleUpdateExperiment(data, selectedExperiment, <<editedTask>>)
       IN /\ SetData(new)
          /\ planRows' = RowsAfter(planRows, new.tasks, isEditingPlan, FALSE)
    /\ lastOp' = Op("handleTaskModalSave", TRUE)
    /\ view' = "details"
    /\ editedTask' = NoTask
    /\ alert' = ""
    /\ UNCHANGED <<selectedExperiment, isEditingPlan, rowEdits, importCandidate, uuid, session, pendingAction, cloud, probe>>

\* onClose
TaskClose ==
    /\ InTaskModal
    /\ view' = IF view = "task" THEN "board" ELSE "details"
    /\ editedTask' = NoTask
    /\ lastOp' = Op("onClose", TRUE)
    /\ alert' = ""
    /\ UNCHANGED <<data, storage, DetailsVars, importCandidate, uuid, session, pendingAction, cloud, probe>>

\* confirmDelete -> onDelete(task.id): App.handleDeleteTask
TaskDelete ==
    /\ view = "task"
    /\ SetData(handleDeleteTask(data, editedTask.id))
    /\ lastOp' = Op("handleDeleteTask", TRUE)
    /\ view' = "board"
    /\ editedTask' = NoTask
    /\ alert' = ""
    /\ UNCHANGED <<DetailsVars, importCandidate, uuid, session, pendingAction, cloud, probe>>

\* confirmDelete -> ExperimentDetailsModal.handleTaskModalDelete
DetailsTaskDelete ==
    /\ view = "detailsTask"
    /\ LET new == handleDeleteTask(data, editedTask.id)
           kept == Filter(planRows, LAMBDA row : row.actualTaskId # editedTask.id)
       IN /\ SetData(new)
          /\ planRows' = RowsAfter(kept, new.tasks, isEditingPlan, FALSE)
    /\ lastOp' = Op("handleDeleteTask", TRUE)
    /\ view' = "details"
    /\ editedTask' = NoTask
    /\ alert' = ""
    /\ UNCHANGED <<selectedExperiment, isEditingPlan, rowEdits, importCandidate, uuid, session, pendingAction, cloud, probe>>

-----------------------------------------------------------------------------
(* ExperimentDetailsModal (view "details"); `edited` differs from the        *)
(* `experiment` prop only in opaque fields, so selectedExperiment is both    *)

\* the dates a shift would write stay inside the modelled calendar
ShiftInRange(experimentId, n) ==
    n = NaN \/
    /\ \A i \in 1..Len(data.tasks) :
        (/\ data.tasks[i].experimentId = experimentId
         /\ ~data.tasks[i].completed
         /\ isValid(data.tasks[i].weekId))
            => addWeeks(data.tasks[i].weekId, n) \in Days
    /\ \A i \in 1..Len(data.experiments) :
        (data.experiments[i].id = experimentId /\ isValid(data.experiments[i].endDate))
            => addWeeks(data.experiments[i].endDate, n) \in Days

\* handleShift -> onShiftTimeline(experiment.id, n); alert(timelineUpdateSuccess).
\* setData swallows what the updater throws when it runs it eagerly, so the
\* alert is raised either way; the updater then throws again in the render,
\* an uncaught render error: the tree unmounts with the state as it was, and
\* the page restarts from the persisted snapshot.
ShiftBy(n) ==
    /\ view = "details"
    /\ ShiftInRange(selectedExperiment.id, n)
    /\ alert' = "timelineUpdateSuccess"
    /\ IF ShiftThrows(data, selectedExperiment.id, n)
       THEN /\ data' = storage
            /\ UNCHANGED storage
            /\ view' = "board"
            /\ selectedExperiment' = NoExperiment
            /\ isEditingPlan' = FALSE
            /\ planRows' = <<>>
            /\ rowEdits' = 0
            /\ lastOp' = Op("handleShiftExperimentTimeline", FALSE)
       ELSE LET new == handleShiftExperimentTimeline(data, selectedExperiment.id, n)
            IN /\ SetData(new)
               /\ planRows' = RowsAfter(planRows, new.tasks, isEditingPlan, FALSE)
               /\ lastOp' = Op("handleShiftExperimentTimeline", TRUE)
               /\ UNCHANGED <<view, selectedExperiment, isEditingPlan, rowEdits>>
    /\ UNCHANGED <<editedTask, importCandidate, uuid, session, pendingAction, cloud, probe>>

Shift == \E n \in ShiftInputs : ShiftBy(n)

\* onResetTasks(experiment.id)
ResetTasks ==
    /\ view = "details"
    /\ LET new == handleResetExperimentTasks(data, selectedExperiment.id)
       IN /\ SetData(new)
          /\ planRows' = RowsAfter(planRows, new.tasks, isEditingPlan, FALSE)
    /\ lastOp' = NoOp
    /\ alert' = ""
    /\ UNCHANGED <<view, editedTask, selectedExperiment, isEditingPlan, rowEdits,
                   importCandidate, uuid, session, pendingAction, cloud, probe>>

\* onDelete(experiment.id); onClose()
DeleteExperiment ==
    /\ view = "details"
    /\ SetData(handleDeleteExperiment(data, selectedExperiment.id))
    /\ lastOp' = NoOp
    /\ view' = "board"
    /\ selectedExperiment' = NoExperiment
    /\ isEditingPlan' = FALSE
    /\ planRows' = <<>>
    /\ rowEdits' = 0
    /\ alert' = ""
    /\ UNCHANGED <<editedTask, importCandidate, uuid, session, pendingAction, cloud, probe>>

\* the quick-edit toggle while not editing
StartQuickEdit ==
    /\ view = "details"
    /\ session.quickEdit
    /\ ~isEditingPlan
    /\ Len(planRows) > 0
    /\ isEditingPlan' = TRUE
    /\ rowEdits' = 0
    /\ lastOp' = NoOp
    /\ alert' = ""
    /\ UNCHANGED <<data, storage, view, editedTask, selectedExperiment, planRows,
                   importCandidate, uuid, session, pendingAction, cloud, probe>>

\* an input of a row: week offset (offset mode) or date (date mode)
RowChange ==
    /\ view = "details"
    /\ isEditingPlan
    /\ rowEdits < MaxRowEdits
    /\ \E index \in 1..Len(planRows), field \in {"weekOffset", "actualDate"} :
        \E value \in (CASE field = "weekOffset" ->
                             {o \in OffsetInputs :
                                 addWeeks(selectedExperiment.startDate, o) \in Days}
                        [] field = "actualDate" -> DateInputs) :
            /\ planRows' = handleRowChange(planRows, selectedExperiment, index, field, value)
            /\ planRows' # planRows
            /\ lastOp' = NoOp
    /\ rowEdits' = rowEdits + 1
    /\ alert' = ""
    /\ UNCHANGED <<data, storage, view, editedTask, selectedExperiment, isEditingPlan,
                   importCandidate, uuid, session, pendingAction, cloud, probe>>

\* the quick-edit toggle while editing: savePlanChanges
SavePlan ==
    /\ view = "details"
    /\ isEditingPlan
    /\ LET new == handleUpdateExperiment(data, selectedExperiment,
                        PlanTasks(planRows, data.tasks, selectedExperiment))
       IN /\ SetData(new)
          /\ planRows' = BuildRows(new.tasks, selectedExperiment)
    /\ isEditingPlan' = FALSE
    /\ rowEdits' = 0
    /\ lastOp' = NoOp
    /\ alert' = ""
    /\ UNCHANGED <<view, editedTask, selectedExperiment, importCandidate, uuid, session, pendingAction, cloud, probe>>

\* the footer's save: if (isEditingPlan) savePlanChanges(); onSave(edited)
DetailsSave ==
    /\ view = "details"
    /\ LET planned == IF isEditingPlan
                      THEN handleUpdateExperiment(data, selectedExperiment,
                                PlanTasks(planRows, data.tasks, selectedExperiment))
                      ELSE data
           new == handleUpdateExperiment(planned, selectedExperiment, <<>>)
       IN /\ SetData(new)
          /\ planRows' = BuildRows(new.tasks, selectedExperiment)
    /\ isEditingPlan' = FALSE
    /\ rowEdits' = 0
    /\ lastOp' = NoOp
    /\ alert' = ""
    /\ UNCHANGED <<view, editedTask, selectedExperiment, importCandidate, uuid, session, pendingAction, cloud, probe>>

\* handleOpenAddTask: a draft in the experiment's first week
OpenAddTask ==
    /\ view = "details"
    /\ uuid.task < session.tasks
    /\ isValid(selectedExperiment.startDate)
    /\ editedTask' = [id |-> uuid.task + 1, experimentId |-> selectedExperiment.id,
                      weekId |-> normalizeToSunday(selectedExperiment.startDate),
                      completed |-> FALSE, dependencies |-> <<>>]
    /\ uuid' = [uuid EXCEPT !.task = uuid.task + 1]
    /\ view' = "detailsTask"
    /\ planRows' = RowsAfter(planRows, data.tasks, isEditingPlan, TRUE)
    /\ lastOp' = NoOp
    /\ alert' = ""
    /\ UNCHANGED <<data, storage, selectedExperiment, isEditingPlan, rowEdits,
                   importCandidate, session, pendingAction, cloud, probe>>

\* handleOpenEditTask(item.actualTaskId) from a row's edit button
OpenEditTask ==
    /\ view = "details"
    /\ \E k \in 1..Len(planRows) :
        LET ix == FindIndex(data.tasks, LAMBDA t : t.id = planRows[k].actualTaskId)
        IN /\ ix # 0
           /\ editedTask' = data.tasks[ix]
           /\ lastOp' = NoOp
    /\ view' = "detailsTask"
    /\ planRows' = RowsAfter(planRows, data.tasks, isEditingPlan, TRUE)
    /\ alert' = ""
    /\ UNCHANGED <<data, storage, selectedExperiment, isEditingPlan, rowEdits,
                   importCandidate, uuid, session, pendingAction, cloud, probe>>

\* onClose
CloseDetails ==
    /\ view = "details"
    /\ view' = "board"
    /\ selectedExperiment' = NoExperiment
    /\ isEditingPlan' = FALSE
    /\ planRows' = <<>>
    /\ rowEdits' = 0
    /\ lastOp' = NoOp
    /\ alert' = ""
    /\ UNCHANGED <<data, storage, editedTask, importCandidate, uuid, session, pendingAction, cloud, probe>>

-----------------------------------------------------------------------------
(* Import: handleImportJson sets the candidate, the conflict modal merges   *)

ImportJson ==
    /\ view = "board"
    /\ session.import
    /\ \E file \in ImportFiles :
        importCandidate' = [present |-> TRUE, data |-> validateAndMigrateAppData(file)]
    /\ view' = "import"
    /\ lastOp' = NoOp
    /\ alert' = ""
    /\ UNCHANGED <<data, storage, editedTask, DetailsVars, uuid, session, pendingAction, cloud, probe>>

MergeImport ==
    /\ view = "import"
    /\ uuid.experiment + Len(importCandidate.data.experiments) <= session.experiments
    /\ uuid.task + Len(importCandidate.data.tasks) <= session.tasks
    /\ SetData(handleMergeImport(data, importCandidate.data, uuid))
    /\ uuid' = [task |-> uuid.task + Len(importCandidate.data.tasks),
                experiment |-> uuid.experiment + Len(importCandidate.data.experiments)]
    /\ importCandidate' = NoCandidate
    /\ view' = "board"
    /\ lastOp' = NoOp
    /\ alert' = "importSuccess"
    /\ UNCHANGED <<editedTask, DetailsVars, session, pendingAction, cloud, probe>>

CancelImport ==
    /\ view = "import"
    /\ importCandidate' = NoCandidate
    /\ view' = "board"
    /\ lastOp' = NoOp
    /\ alert' = ""
    /\ UNCHANGED <<data, storage, editedTask, DetailsVars, uuid, session, pendingAction, cloud, probe>>

-----------------------------------------------------------------------------

Next ==
    \/ WizardFinish
    \/ BoardAddTask
    \/ BoardEditTask
    \/ OpenExperiment
    \/ EditCompleted
    \/ AddDependency
    \/ RemoveDependency
    \/ TaskSave
    \/ DetailsTaskSave
    \/ TaskClose
    \/ TaskDelete
    \/ DetailsTaskDelete
    \/ Shift
    \/ ResetTasks
    \/ DeleteExperiment
    \/ StartQuickEdit
    \/ RowChange
    \/ SavePlan
    \/ DetailsSave
    \/ OpenAddTask
    \/ OpenEditTask
    \/ CloseDetails
    \/ ImportJson
    \/ MergeImport
    \/ CancelImport

Spec == Init /\ [][Next]_vars

-----------------------------------------------------------------------------
(* The pure helpers of utils.ts on drawn inputs: probe holds the arguments, *)
(* and after the call the result                                            *)

MaxProbeTasks == 2
MaxProbeDeps == 1

\* ids 1..MaxProbeTasks name the tasks of allTasks, the last id names no task
ProbeIds == 1..(MaxProbeTasks + 1)

\* dependency lists of up to len ids, none repeated
DependencyLists(len) ==
    {s \in UNION {[1..n -> ProbeIds] : n \in 0..len} :
        \A i, j \in DOMAIN s : i # j => s[i] # s[j]}

\* task lists with the ids 1..k and any completed flags and dependencies
ProbeTasks ==
    UNION {{[i \in 1..k |-> [id |-> i, completed |-> c[i], dependencies |-> d[i]]] :
                c \in [1..k -> {FALSE}], d \in [1..k -> DependencyLists(MaxProbeDeps)]} :
           k \in 0..MaxProbeTasks}

ProbeBoards ==
    UNION {{[i \in 1..k |-> [id |-> i, completed |-> c[i], dependencies |-> <<>>]] :
                c \in [1..k -> BOOLEAN]} :
           k \in 0..MaxProbeTasks}

CircularInputs ==
    {[fn |-> "hasCircularDependency", allTasks |-> g,
      task |-> [id |-> a, completed |-> FALSE, dependencies |-> <<>>],
      newDependencyId |-> b, done |-> FALSE, result |-> FALSE] :
        g \in ProbeTasks, a \in ProbeIds, b \in ProbeIds}

BlockedInputs ==
    {[fn |-> "isTaskBlocked", allTasks |-> g,
      task |-> [id |-> MaxProbeTasks + 1, completed |-> FALSE, dependencies |-> d],
      newDependencyId |-> 0, done |-> FALSE, result |-> FALSE] :
        g \in ProbeBoards, d \in DependencyLists(MaxProbeDeps + 1)}

InitPure ==
    /\ data = EmptyData
    /\ storage = EmptyData
    /\ view = "board"
    /\ editedTask = NoTask
    /\ selectedExperiment = NoExperiment
    /\ isEditingPlan = FALSE
    /\ planRows = <<>>
    /\ rowEdits = 0
    /\ importCandidate = NoCandidate
    /\ alert = ""
    /\ lastOp = NoOp
    /\ uuid = [task |-> 0, experiment |-> 0]
    /\ session = [tasks |-> 0, experiments |-> 0, quickEdit |-> FALSE, import |-> FALSE]
    /\ pendingAction = NoAction
    /\ cloud = NoCloud
    /\ probe \in CircularInputs \cup BlockedInputs

CallHasCircularDependency ==
    /\ probe.fn = "hasCircularDependency"
    /\ ~probe.done
    /\ probe' = [probe EXCEPT
                    !.done = TRUE,
                    !.result = hasCircularDependency(probe.allTasks, probe.task.id,
                                                     probe.newDependencyId)]
    /\ UNCHANGED <<data, storage, view, editedTask, DetailsVars, importCandidate,
                   alert, lastOp, uuid, session, pendingAction, cloud>>

CallIsTaskBlocked ==
    /\ probe.fn = "isTaskBlocked"
    /\ ~probe.done
    /\ probe' = [probe EXCEPT
                    !.done = TRUE,
                    !.result = isTaskBlocked(probe.task, probe.allTasks)]
    /\ UNCHANGED <<data, storage, view, editedTask, DetailsVars, importCandidate,
                   alert, lastOp, uuid, session, pendingAction, cloud>>

NextPure ==
    \/ CallHasCircularDependency
    \/ CallIsTaskBlocked

SpecPure == InitPure /\ [][NextPure]_vars

-----------------------------------------------------------------------------
(* The dependency relation, stated apart from the code's search *)

\* <<t, d>>: task id t lists d in its dependencies
EdgesOf(tasks) ==
    UNION {{<<tasks[i].id, tasks[i].dependencies[k]>> :
                k \in 1..Len(tasks[i].dependencies)} : i \in 1..Len(tasks)}

Successors(E, S) == {e[2] : e \in {x \in E : x[1] \in S}}

RECURSIVE Closure(_, _)
Closure(E, S) ==
    LET next == S \cup Successors(E, S)
    IN IF next = S THEN S ELSE Closure(E, next)

\* the ids reached from a over one edge or more
ReachableFrom(E, a) == Closure(E, Successors(E, {a}))

Acyclic(E) == \A e \in E : e[1] \notin ReachableFrom(E, e[1])

\* the Sunday of the week the valid date d lies in
WeekOf(d) == 7 * (d \div 7)

-----------------------------------------------------------------------------
(* Properties of the cycle guard and of the blocked test (under SpecPure) *)

CircularCalled == probe.fn = "hasCircularDependency" /\ probe.done
BlockedCalled == probe.fn = "isTaskBlocked" /\ probe.done

\* C1: hasCircularDependency(allTasks, taskId, newDependencyId) is true whenever
\* taskId = newDependencyId (also for an id that names no task of allTasks) and
\* whenever taskId is reached from newDependencyId over existing edges.
CircularWhenReachable ==
    CircularCalled =>
        LET E == EdgesOf(probe.allTasks)
        IN (\/ probe.task.id = probe.newDependencyId
            \/ probe.task.id \in ReachableFrom(E, probe.newDependencyId))
           => probe.result

\* the proposed edge closes a cycle of three or more: taskId is reached from
\* newDependencyId, and not over a single edge
CircularWitness ==
    /\ CircularCalled
    /\ probe.result
    /\ probe.task.id # probe.newDependencyId
    /\ probe.task.id \in ReachableFrom(EdgesOf(probe.allTasks), probe.newDependencyId)
    /\ <<probe.newDependencyId, probe.task.id>> \notin EdgesOf(probe.allTasks)

\* C2: on an acyclic graph, with taskId # newDependencyId and taskId not reached
\* from newDependencyId, hasCircularDependency is false, also where two paths
\* from taskId meet in one task and where a dependency id names no task.
NotCircularWhenUnreachable ==
    CircularCalled =>
        LET E == EdgesOf(probe.allTasks)
        IN (/\ Acyclic(E)
            /\ probe.task.id # probe.newDependencyId
            /\ probe.task.id \notin ReachableFrom(E, probe.newDependencyId))
           => ~probe.result

\* an acyclic graph where an existing dependency x of taskId and the proposed
\* one lead to a common task, which itself is an id that names no task
ConvergentWitness ==
    /\ CircularCalled
    /\ ~probe.result
    /\ LET E == EdgesOf(probe.allTasks)
           ids == {probe.allTasks[i].id : i \in 1..Len(probe.allTasks)}
       IN /\ Acyclic(E)
          /\ \E x \in Successors(E, {probe.task.id}) :
                /\ x # probe.newDependencyId
                /\ \E z \in ({x} \cup ReachableFrom(E, x))
                            \cap ReachableFrom(E, probe.newDependencyId) :
                        z \notin ids

\* C7: isTaskBlocked(task, allTasks) is true exactly when some id of
\* task.dependencies names a task of allTasks that is not completed; an id that
\* names no task never blocks.
BlockedIffIncompleteDependency ==
    BlockedCalled =>
        (probe.result <=>
            \E d \in Range(probe.task.dependencies) :
                \E j \in 1..Len(probe.allTasks) :
                    probe.allTasks[j].id = d /\ ~probe.allTasks[j].completed)

\* not blocked with one dependency completed and another naming no task
BlockedWitness ==
    /\ BlockedCalled
    /\ ~probe.result
    /\ \E d \in Range(probe.task.dependencies) :
            \E j \in 1..Len(probe.allTasks) :
                probe.allTasks[j].id = d /\ probe.allTasks[j].completed
    /\ \E d \in Range(probe.task.dependencies) :
            \A j \in 1..Len(probe.allTasks) : probe.allTasks[j].id # d

-----------------------------------------------------------------------------
(* Properties of the store (under Spec) *)

Stores == {data, storage}

\* C3: after any sequence of board operations from the empty store the stored
\* dependency relation is acyclic and has no self-dependency, in the app's
\* state and in the persisted snapshot.
DependenciesAcyclic ==
    \A store \in Stores : Acyclic(EdgesOf(store.tasks))

\* the guard has just refused an edge offered by the picker: the stored task u
\* depends on the edited task, and lies in an earlier week than it
CycleRefusedWitness ==
    /\ InTaskModal
    /\ alert = "circularDependencyError"
    /\ \E i \in 1..Len(data.tasks) :
        /\ Includes(data.tasks[i].dependencies, editedTask.id)
        /\ DateLess(data.tasks[i].weekId, editedTask.weekId)

\* C4: where hasCircularDependency is true for the chosen task, the step of
\* handleAddDependency leaves the edited task and the store as they were and
\* raises the circular-dependency alert.
RejectedDependencyChangesNothing ==
    [][\A taskId \in TaskIds :
        (/\ AddDependencyOf(taskId)
         /\ hasCircularDependency(data.tasks, editedTask.id, taskId))
        => (/\ editedTask' = editedTask
            /\ data' = data
            /\ storage' = storage
            /\ alert' = "circularDependencyError")]_vars

\* after the refusal the modal still shows the dependencies the store holds
\* for the edited task
RejectedWitness ==
    /\ alert = "circularDependencyError"
    /\ \E i \in 1..Len(data.tasks) :
        /\ data.tasks[i].id = editedTask.id
        /\ data.tasks[i].dependencies = editedTask.dependencies

\* C5: in every reachable state each id in a stored task's dependencies names
\* a stored task of the same experiment.
DependenciesResolveInExperiment ==
    \A store \in Stores :
        \A i \in 1..Len(store.tasks) :
            \A d \in Range(store.tasks[i].dependencies) :
                \E j \in 1..Len(store.tasks) :
                    /\ store.tasks[j].id = d
                    /\ store.tasks[j].experimentId = store.tasks[i].experimentId

\* a stored dependency while a second experiment is on the board
DependencyWitness ==
    /\ Len(data.experiments) >= 2
    /\ EdgesOf(data.tasks) # {}

\* C6: a step of handleDeleteTask(D) removes the task D, removes D from the
\* dependencies of the tasks that stay, and changes nothing else: the other
\* tasks stay, in their order and with their other fields and dependency ids,
\* and the experiments stay.
DeleteRemovesOnlyTheTask ==
    [][(TaskDelete \/ DetailsTaskDelete) =>
        LET D == editedTask.id
            kept == SelectSeq(data.tasks, LAMBDA t : t.id # D)
        IN /\ data'.experiments = data.experiments
           /\ Len(data'.tasks) = Len(kept)
           /\ \A i \in 1..Len(kept) :
                data'.tasks[i] =
                    [kept[i] EXCEPT !.dependencies =
                        SelectSeq(kept[i].dependencies, LAMBDA d : d # D)]
           /\ storage' = data']_vars

\* a delete has just run and left a task behind
DeleteWitness ==
    /\ lastOp.name = "handleDeleteTask"
    /\ Len(data.tasks) >= 1
    /\ uuid.task >= 2

-----------------------------------------------------------------------------
(* Properties of the timeline shift (under Spec) *)

\* a step of the shift by n whose updater returns
ShiftReturns(n) == ShiftBy(n) /\ ~ShiftThrows(data, selectedExperiment.id, n)

\* C8: a shift by n weeks that returns moves every task of the experiment that
\* is not completed into the week n calendar weeks after its own (for a Sunday
\* weekId: weekId + 7n) and changes no other field of it; completed tasks and
\* the tasks of other experiments stay as they are.
ShiftMovesIncompleteTasks ==
    [][\A n \in ShiftDeltas :
        ShiftReturns(n) =>
            /\ Len(data'.tasks) = Len(data.tasks)
            /\ \A i \in 1..Len(data.tasks) :
                LET t == data.tasks[i]
                IN IF t.experimentId = selectedExperiment.id /\ ~t.completed
                   THEN data'.tasks[i] = [t EXCEPT !.weekId = WeekOf(t.weekId) + 7 * n]
                   ELSE data'.tasks[i] = t]_vars

\* a shift has just returned for an experiment with a completed task and a
\* task that is not
ShiftWitness ==
    /\ lastOp = Op("handleShiftExperimentTimeline", TRUE)
    /\ \E i, j \in 1..Len(data.tasks) :
        /\ data.tasks[i].experimentId = selectedExperiment.id
        /\ data.tasks[j].experimentId = selectedExperiment.id
        /\ data.tasks[i].completed
        /\ ~data.tasks[j].completed

\* C9: a shift by n weeks that returns moves the experiment's endDate, where
\* it has one, by n weeks, and leaves every other experiment as it is.
ShiftMovesEndDate ==
    [][\A n \in ShiftDeltas :
        ShiftReturns(n) =>
            /\ Len(data'.experiments) = Len(data.experiments)
            /\ \A i \in 1..Len(data.experiments) :
                LET e == data.experiments[i]
                IN IF e.id = selectedExperiment.id /\ e.endDate # EmptyDate
                   THEN data'.experiments[i] = [e EXCEPT !.endDate = e.endDate + 7 * n]
                   ELSE data'.experiments[i] = e]_vars

\* every task of experiment id that is not completed lies n weeks after its
\* week in old, and an endDate of the experiment n weeks after its week in old
ShiftedTogether(old, new, id, n) ==
    /\ Len(new.tasks) = Len(old.tasks)
    /\ Len(new.experiments) = Len(old.experiments)
    /\ \A i \in 1..Len(old.tasks) :
        (old.tasks[i].experimentId = id /\ ~old.tasks[i].completed)
            => new.tasks[i].weekId = WeekOf(old.tasks[i].weekId) + 7 * n
    /\ \A i \in 1..Len(old.experiments) :
        (old.experiments[i].id = id /\ old.experiments[i].endDate # EmptyDate)
            => new.experiments[i].endDate = WeekOf(old.experiments[i].endDate) + 7 * n

\* C10: a shift is all or nothing: after its step the store and the persisted
\* snapshot are equal, and either hold every task that is not completed and
\* the endDate moved together, or are both as before; where the updater fails
\* for a task (or for the endDate) they are as before.
ShiftAllOrNothing ==
    [][\A n \in ShiftInputs :
        ShiftBy(n) =>
            /\ storage' = data'
            /\ \/ data' = data /\ storage' = storage
               \/ /\ n # NaN
                  /\ ~ShiftThrows(data, selectedExperiment.id, n)
                  /\ ShiftedTogether(data, data', selectedExperiment.id, n)]_vars

\* a shift has just failed on a task without a week while another task of the
\* same experiment had one: neither moved
ShiftFailedWitness ==
    /\ lastOp = Op("handleShiftExperimentTimeline", FALSE)
    /\ storage = data
    /\ \E i, j \in 1..Len(data.tasks) :
        /\ data.tasks[i].experimentId = data.tasks[j].experimentId
        /\ ~data.tasks[i].completed
        /\ ~data.tasks[j].completed
        /\ ~isValid(data.tasks[i].weekId)
        /\ isValid(data.tasks[j].weekId)

-----------------------------------------------------------------------------
(* Properties of the week ids (under Spec) *)

\* C11: in every reachable state every stored task's weekId is the date of a
\* Sunday, the canonical start of its week.
WeekIdsAreSundays ==
    \A store \in Stores :
        \A i \in 1..Len(store.tasks) :
            /\ isValid(store.tasks[i].weekId)
            /\ store.tasks[i].weekId % 7 = 0

-----------------------------------------------------------------------------
(* The calendar helpers on drawn dates: normalizeToSunday, and the two      *)
(* directions of the details modal's week offset (handleRowChange for an   *)
(* edited offset or date, the planRows effect for a stored weekId)         *)

MaxProbeWeeks == 2

\* start dates on every weekday; dates up to MaxProbeWeeks weeks around them
ProbeStarts == 0..6
ProbeOffsets == (0 - MaxProbeWeeks)..MaxProbeWeeks
ProbeDates == (0 - 7 * MaxProbeWeeks)..(7 * MaxProbeWeeks + 6)

CalendarInputs ==
    {[fn |-> "normalizeToSunday", date |-> d, done |-> FALSE, result |-> 0] :
        d \in ProbeDates}
    \cup
    {[fn |-> "offsetOfWeekId", startDate |-> s, weekOffset |-> n, weekId |-> 0,
      done |-> FALSE, result |-> 0] : s \in ProbeStarts, n \in ProbeOffsets}
    \cup
    {[fn |-> "offsetOfDate", startDate |-> s, date |-> d, done |-> FALSE,
      result |-> 0] : s \in ProbeStarts, d \in ProbeDates}

InitCalendar ==
    /\ data = EmptyData
    /\ storage = EmptyData
    /\ view = "board"
    /\ editedTask = NoTask
    /\ selectedExperiment = NoExperiment
    /\ isEditingPlan = FALSE
    /\ planRows = <<>>
    /\ rowEdits = 0
    /\ importCandidate = NoCandidate
    /\ alert = ""
    /\ lastOp = NoOp
    /\ uuid = [task |-> 0, experiment |-> 0]
    /\ session = [tasks |-> 0, experiments |-> 0, quickEdit |-> FALSE, import |-> FALSE]
    /\ pendingAction = NoAction
    /\ cloud = NoCloud
    /\ probe \in CalendarInputs

\* the one row of an experiment starting on startDate with one task in its
\* first week
ProbeExperiment(startDate) == [id |-> 1, startDate |-> startDate, endDate |-> EmptyDate]
ProbeRow(startDate) ==
    <<[actualTaskId |-> 1, weekOffset |-> 0, actualDate |-> normalizeToSunday(startDate)]>>

CallNormalizeToSunday ==
    /\ probe.fn = "normalizeToSunday"
    /\ ~probe.done
    /\ probe' = [probe EXCEPT !.done = TRUE, !.result = normalizeToSunday(probe.date)]
    /\ UNCHANGED <<data, storage, view, editedTask, DetailsVars, importCandidate,
                   alert, lastOp, uuid, session, pendingAction, cloud>>

\* the row's offset is edited to weekOffset, the row's date is saved as the
\* task's weekId, and the planRows effect computes the offset of that weekId
CallOffsetOfWeekId ==
    /\ probe.fn = "offsetOfWeekId"
    /\ ~probe.done
    /\ LET experiment == ProbeExperiment(probe.startDate)
           rows == handleRowChange(ProbeRow(probe.startDate), experiment, 1,
                                   "weekOffset", probe.weekOffset)
           task == [id |-> 1, experimentId |-> 1, weekId |-> rows[1].actualDate,
                    completed |-> FALSE, dependencies |-> <<>>]
       IN probe' = [probe EXCEPT
                        !.done = TRUE,
                        !.weekId = task.weekId,
                        !.result = BuildRows(<<task>>, experiment)[1].weekOffset]
    /\ UNCHANGED <<data, storage, view, editedTask, DetailsVars, importCandidate,
                   alert, lastOp, uuid, session, pendingAction, cloud>>

\* the row's date is edited to date, and handleRowChange computes its offset
CallOffsetOfDate ==
    /\ probe.fn = "offsetOfDate"
    /\ ~probe.done
    /\ LET rows == handleRowChange(ProbeRow(probe.startDate),
                                   ProbeExperiment(probe.startDate), 1,
                                   "actualDate", probe.date)
       IN probe' = [probe EXCEPT !.done = TRUE, !.result = rows[1].weekOffset]
    /\ UNCHANGED <<data, storage, view, editedTask, DetailsVars, importCandidate,
                   alert, lastOp, uuid, session, pendingAction, cloud>>

NextCalendar ==
    \/ CallNormalizeToSunday
    \/ CallOffsetOfWeekId
    \/ CallOffsetOfDate

SpecCalendar == InitCalendar /\ [][NextCalendar]_vars

-----------------------------------------------------------------------------
(* Properties of the calendar helpers (under SpecCalendar) *)

\* C12: normalizeToSunday maps a valid date d to the Sunday s of its week: s is
\* a Sunday, s <= d < s + 7, a Sunday maps to itself, and normalizing s again
\* gives s.
NormalizedIsSundayOfWeek ==
    (probe.fn = "normalizeToSunday" /\ probe.done) =>
        LET d == probe.date
            s == probe.result
        IN /\ s % 7 = 0
           /\ s <= d /\ d < s + 7
           /\ (d % 7 = 0 => s = d)
           /\ normalizeToSunday(s) = s

\* a mid-week date before day 0 has been normalized
NormalizedWitness ==
    /\ probe.fn = "normalizeToSunday" /\ probe.done
    /\ probe.date < 0
    /\ probe.date % 7 = 3
    /\ probe.result = probe.date - 3

\* C13: for every start date and every integer n, the offset the code computes
\* for the week id normalizeToSunday(start + n weeks) is n.
OffsetRoundTrip ==
    (probe.fn = "offsetOfWeekId" /\ probe.done) =>
        /\ probe.weekId = normalizeToSunday(addWeeks(probe.startDate, probe.weekOffset))
        /\ probe.result = probe.weekOffset

\* C14: the offset of a target date from a start date is the difference of
\* their calendar weeks: 0 for any date of the start's own week, 1 for any
\* date of the week after it, whatever the two weekdays are.
OffsetIsCalendarWeekDifference ==
    (probe.fn = "offsetOfDate" /\ probe.done) =>
        LET s == WeekOf(probe.startDate)
            d == probe.date
        IN /\ (s <= d /\ d < s + 7) => probe.result = 0
           /\ (s + 7 <= d /\ d < s + 14) => probe.result = 1
           /\ probe.result = (WeekOf(d) - s) \div 7

-----------------------------------------------------------------------------
(* ExperimentWizard.handleFinish with recurring drafts, one step per draft  *)
(* and per iteration of the recurrence loop.  probe holds the wizard's      *)
(* state (basicData.startDate, draftTasks) and the locals of the running    *)
(* call.  A task here carries also title, recurrenceGroupId and planTaskId; *)
(* a title is the draft's title (opaque: the draft's id stands for it) with *)
(* the occurrence counter of its suffix, 0 where there is no suffix.        *)

MaxDrafts == 2
MaxInterval == 2
MaxDuration == 5
\* the cap on the tasks one call emits: more than the drafts need where every
\* interval is 1 or more
MaxEmitted == MaxDuration + 2 * MaxDrafts

\* recurrenceGroupId: undefined
NoGroup == 0

NoRecurrence == [type |-> "none"]

\* the recurrence of a draft: none, or what the two number inputs hold
\* (min="1" is not enforced on typed values: 0 and negatives reach the state)
Recurrences ==
    {NoRecurrence} \cup
    {[type |-> "interval", intervalWeeks |-> i, durationWeeks |-> d] :
        i \in (0 - 1)..MaxInterval, d \in 0..MaxDuration}

DraftOffsets == {0, 2}

\* the first draft of the review step: any offset and recurrence
FirstDrafts ==
    {[id |-> 1, title |-> 1, weekOffset |-> o, isSelected |-> TRUE,
      recurrence |-> r, dependencies |-> <<>>] :
        o \in DraftOffsets, r \in Recurrences}

\* a draft after it: selected or not, single or weekly for two weeks, with a
\* dependency on the first draft where processAiDraft resolved one
LaterDrafts(i) ==
    {[id |-> i, title |-> i, weekOffset |-> 0, isSelected |-> s,
      recurrence |-> r, dependencies |-> dep] :
        s \in BOOLEAN,
        r \in {NoRecurrence,
               [type |-> "interval", intervalWeeks |-> 1, durationWeeks |-> 2]},
        dep \in {<<>>, <<1>>}}

RECURSIVE DraftListsOf(_)
DraftListsOf(k) ==
    IF k = 1 THEN {<<d>> : d \in FirstDrafts}
    ELSE {Append(l, d) : l \in DraftListsOf(k - 1), d \in LaterDrafts(k)}

DraftLists == UNION {DraftListsOf(k) : k \in 1..MaxDrafts}

WizardStarts == {0, 3}

InitWizard ==
    /\ data = EmptyData
    /\ storage = EmptyData
    /\ view = "wizard"
    /\ editedTask = NoTask
    /\ selectedExperiment = NoExperiment
    /\ isEditingPlan = FALSE
    /\ planRows = <<>>
    /\ rowEdits = 0
    /\ importCandidate = NoCandidate
    /\ alert = ""
    /\ lastOp = NoOp
    /\ uuid = [task |-> 0, experiment |-> 0, group |-> 0]
    /\ session = [tasks |-> 0, experiments |-> 0, quickEdit |-> FALSE, import |-> FALSE]
    /\ pendingAction = NoAction
    /\ cloud = NoCloud
    /\ \E startDate \in WizardStarts, drafts \in DraftLists :
        probe = [fn |-> "handleFinish", startDate |-> startDate, draftTasks |-> drafts,
                 pc |-> "start", experimentId |-> 0, selectedDrafts |-> <<>>,
                 index |-> 0, w |-> 0, count |-> 0, groupId |-> NoGroup,
                 finalTasks |-> <<>>]

\* the test of `for (let w = 0; w <= durationWeeks; ...)`
loopContinuesInclusive(draft, w) == w <= draft.recurrence.durationWeeks

\* the test on the offset from the experiment's start
loopContinuesFromStart(draft, w) == draft.weekOffset + w < draft.recurrence.durationWeeks

\* the test of `for (let w = 0; w < durationWeeks; w += intervalWeeks)`
loopContinues(draft, w) == w < draft.recurrence.durationWeeks

\* the pushed instance with a groupId of its own
recurringInstanceOwnGroup(draft, experimentId, startDate, w, count, groupId, id) ==
    [id |-> id, experimentId |-> experimentId,
     title |-> [text |-> draft.title, occurrence |-> count + 1],
     weekId |-> normalizeToSunday(addWeeks(startDate, draft.weekOffset + w)),
     completed |-> FALSE, dependencies |-> <<>>,
     recurrenceGroupId |-> id, planTaskId |-> draft.id]

\* the object pushed by one iteration of the loop
recurringInstance(draft, experimentId, startDate, w, count, groupId, id) ==
    [id |-> id, experimentId |-> experimentId,
     title |-> [text |-> draft.title, occurrence |-> count + 1],
     weekId |-> normalizeToSunday(addWeeks(startDate, draft.weekOffset + w)),
     completed |-> FALSE, dependencies |-> <<>>,
     recurrenceGroupId |-> groupId, planTaskId |-> draft.id]

\* the pushed task with the draft's dependencies carried over
singleTaskWithDependencies(draft, experimentId, startDate, id) ==
    [id |-> id, experimentId |-> experimentId,
     title |-> [text |-> draft.title, occurrence |-> 0],
     weekId |-> normalizeToSunday(addWeeks(startDate, draft.weekOffset)),
     completed |-> FALSE, dependencies |-> draft.dependencies,
     recurrenceGroupId |-> NoGroup, planTaskId |-> draft.id]

\* the object pushed for a draft without recurrence
singleTask(draft, experimentId, startDate, id) ==
    [id |-> id, experimentId |-> experimentId,
     title |-> [text |-> draft.title, occurrence |-> 0],
     weekId |-> normalizeToSunday(addWeeks(startDate, draft.weekOffset)),
     completed |-> FALSE, dependencies |-> <<>>,
     recurrenceGroupId |-> NoGroup, planTaskId |-> draft.id]

WizardUnchanged ==
    UNCHANGED <<data, storage, view, editedTask, DetailsVars, importCandidate,
                alert, lastOp, session, pendingAction, cloud>>

\* the draft the forEach is at
CurrentDraft == probe.selectedDrafts[probe.index]

\* lines 536-550: the experiment id and the selected drafts
FinishStart ==
    /\ probe.fn = "handleFinish"
    /\ probe.pc = "start"
    /\ probe' = [probe EXCEPT
                    !.pc = "forEach",
                    !.experimentId = uuid.experiment + 1,
                    !.selectedDrafts = SelectSeq(probe.draftTasks, LAMBDA d : d.isSelected),
                    !.index = 1]
    /\ uuid' = [uuid EXCEPT !.experiment = uuid.experiment + 1]
    /\ WizardUnchanged

\* lines 578-594: a draft without recurrence
FinishSingle ==
    /\ probe.fn = "handleFinish"
    /\ probe.pc = "forEach"
    /\ probe.index <= Len(probe.selectedDrafts)
    /\ CurrentDraft.recurrence.type = "none"
    /\ probe' = [probe EXCEPT
                    !.finalTasks = Append(probe.finalTasks,
                                          singleTask(CurrentDraft, probe.experimentId,
                                                     probe.startDate, uuid.task + 1)),
                    !.index = probe.index + 1]
    /\ uuid' = [uuid EXCEPT !.task = uuid.task + 1]
    /\ WizardUnchanged

\* lines 553-557: a recurring draft, up to the first test of the loop
FinishRecurring ==
    /\ probe.fn = "handleFinish"
    /\ probe.pc = "forEach"
    /\ probe.index <= Len(probe.selectedDrafts)
    /\ CurrentDraft.recurrence.type = "interval"
    /\ probe' = [probe EXCEPT !.pc = "loop", !.groupId = uuid.group + 1,
                              !.w = 0, !.count = 0]
    /\ uuid' = [uuid EXCEPT !.group = uuid.group + 1]
    /\ WizardUnchanged

\* lines 557-576: one iteration of the loop
FinishLoop ==
    /\ probe.fn = "handleFinish"
    /\ probe.pc = "loop"
    /\ loopContinues(CurrentDraft, probe.w)
    /\ Len(probe.finalTasks) < MaxEmitted
    /\ probe' = [probe EXCEPT
                    !.finalTasks = Append(probe.finalTasks,
                                          recurringInstance(CurrentDraft, probe.experimentId,
                                                            probe.startDate, probe.w,
                                                            probe.count, probe.groupId,
                                                            uuid.task + 1)),
                    !.w = probe.w + CurrentDraft.recurrence.intervalWeeks,
                    !.count = probe.count + 1]
    /\ uuid' = [uuid EXCEPT !.task = uuid.task + 1]
    /\ WizardUnchanged

\* line 557: the test fails and the forEach moves on
FinishLoopEnd ==
    /\ probe.fn = "handleFinish"
    /\ probe.pc = "loop"
    /\ ~loopContinues(CurrentDraft, probe.w)
    /\ probe' = [probe EXCEPT !.pc = "forEach", !.index = probe.index + 1]
    /\ UNCHANGED uuid
    /\ WizardUnchanged

\* lines 596-622: the forEach is over and onSave gets the tasks
FinishSave ==
    /\ probe.fn = "handleFinish"
    /\ probe.pc = "forEach"
    /\ probe.index > Len(probe.selectedDrafts)
    /\ probe' = [probe EXCEPT !.pc = "done"]
    /\ UNCHANGED uuid
    /\ WizardUnchanged

NextWizard ==
    \/ FinishStart
    \/ FinishSingle
    \/ FinishRecurring
    \/ FinishLoop
    \/ FinishLoopEnd
    \/ FinishSave

SpecWizard == InitWizard /\ [][NextWizard]_vars

-----------------------------------------------------------------------------
(* Properties of the plan expansion (under SpecWizard) *)

WizardRunning == probe.fn = "handleFinish" /\ probe.pc # "start"
WizardDone == probe.fn = "handleFinish" /\ probe.pc = "done"

\* the emitted tasks that name the plan entry, in the order of emission
TasksOf(draft) == SelectSeq(probe.finalTasks, LAMBDA t : t.planTaskId = draft.id)

\* ceil(a / b) for b >= 1
Ceil(a, b) == (a + b - 1) \div b

\* the Sunday of the week n weeks after the week of the start date
WeekAfter(startDate, n) == WeekOf(startDate + 7 * n)

\* C15: an entry with intervalWeeks >= 1 and durationWeeks >= 1 is expanded to
\* exactly ceil(durationWeeks / intervalWeeks) tasks, the k-th (from 0) in the
\* week of startDate + (weekOffset + k * intervalWeeks) weeks, and none at an
\* offset from the entry's start of durationWeeks or more.
ExpansionCountsAndWeeks ==
    WizardDone =>
        \A j \in 1..Len(probe.selectedDrafts) :
            LET draft == probe.selectedDrafts[j]
                r == draft.recurrence
                inst == TasksOf(draft)
            IN (r.type = "interval" /\ r.intervalWeeks >= 1 /\ r.durationWeeks >= 1) =>
                /\ Len(inst) = Ceil(r.durationWeeks, r.intervalWeeks)
                /\ \A k \in 0..(Len(inst) - 1) :
                    /\ inst[k + 1].weekId =
                          WeekAfter(probe.startDate, draft.weekOffset + k * r.intervalWeeks)
                    /\ k * r.intervalWeeks < r.durationWeeks

\* an expansion from a mid-week start date has ended with an entry whose
\* duration is not a multiple of its interval, the last instance in the last
\* week of the duration
ExpansionWitness ==
    /\ WizardDone
    /\ probe.startDate % 7 # 0
    /\ \E j \in 1..Len(probe.selectedDrafts) :
        LET draft == probe.selectedDrafts[j]
            r == draft.recurrence
        IN /\ r.type = "interval"
           /\ r.intervalWeeks >= 2
           /\ r.durationWeeks % r.intervalWeeks = 1
           /\ Len(TasksOf(draft)) >= 3

\* C16: an intervalWeeks of 0 or less never makes the expansion emit without
\* bound: no entry gets more instances than its durationWeeks, the most any
\* interval of 1 or more gives.
ExpansionBounded ==
    WizardRunning =>
        \A j \in 1..Len(probe.selectedDrafts) :
            LET draft == probe.selectedDrafts[j]
            IN draft.recurrence.type = "interval" =>
                Len(TasksOf(draft)) <= draft.recurrence.durationWeeks

\* the weeks of the emitted tasks as offsets from the start date's week
EmittedOffsets ==
    [k \in 1..Len(probe.finalTasks) |->
        (probe.finalTasks[k].weekId - WeekOf(probe.startDate)) \div 7]

\* the one entry {weekOffset: 2, recurrence: {intervalWeeks: 2, durationWeeks: 5}}
\* expanded from 2024-01-07 (day 0)
ExampleExpanded ==
    /\ WizardDone
    /\ probe.startDate = 0
    /\ Len(probe.draftTasks) = 1
    /\ probe.draftTasks[1].weekOffset = 2
    /\ probe.draftTasks[1].recurrence =
          [type |-> "interval", intervalWeeks |-> 2, durationWeeks |-> 5]

\* C17 as stated: the example entry is expanded to the offsets 2 and 4 only.
ExampleStopsBeforeSix == ExampleExpanded => EmittedOffsets = <<2, 4>>

\* C17, amended: the example entry is expanded to exactly 3 instances, at the
\* offsets 2, 4 and 6 from the experiment start (0, 2 and 4 from the entry's
\* start, each below 5), and stops before offset 8.
ExampleEmitsThree == ExampleExpanded => EmittedOffsets = <<2, 4, 6>>

ExampleWitness == ExampleExpanded /\ Len(probe.finalTasks) = 3

\* C18: every emitted task is not completed, has no dependencies and names in
\* planTaskId the entry it was made from; an entry without recurrence gives
\* exactly one task, in the week of startDate + weekOffset weeks.
EmittedTasksAreFresh ==
    WizardRunning =>
        /\ \A k \in 1..Len(probe.finalTasks) :
            LET t == probe.finalTasks[k]
            IN /\ ~t.completed
               /\ t.dependencies = <<>>
               /\ \E j \in 1..Len(probe.selectedDrafts) :
                    /\ probe.selectedDrafts[j].id = t.planTaskId
                    /\ probe.selectedDrafts[j].title = t.title.text
        /\ WizardDone =>
            \A j \in 1..Len(probe.selectedDrafts) :
                LET draft == probe.selectedDrafts[j]
                IN draft.recurrence.type = "none" =>
                    /\ Len(TasksOf(draft)) = 1
                    /\ TasksOf(draft)[1].weekId =
                          WeekAfter(probe.startDate, draft.weekOffset)

\* an expansion has ended with a single task made from an entry that lists a
\* dependency, after the instances of a recurring entry
FreshWitness ==
    /\ WizardDone
    /\ Len(probe.finalTasks) >= 3
    /\ \E j \in 1..Len(probe.selectedDrafts) :
        /\ probe.selectedDrafts[j].dependencies # <<>>
        /\ probe.selectedDrafts[j].recurrence.type = "none"
        /\ Len(TasksOf(probe.selectedDrafts[j])) = 1

\* C19: the instances of one recurring entry share one recurrenceGroupId, the
\* tasks of two entries never share one, a task of an entry without recurrence
\* has none, and the titles of a recurring entry's instances are suffixed 1, 2,
\* 3, ... in increasing week order.
RecurrenceGroupsAndCounters ==
    WizardDone =>
        /\ \A j \in 1..Len(probe.selectedDrafts) :
            LET draft == probe.selectedDrafts[j]
                inst == TasksOf(draft)
            IN IF draft.recurrence.type = "interval"
               THEN \A k \in 1..Len(inst) :
                        /\ inst[k].recurrenceGroupId # NoGroup
                        /\ inst[k].recurrenceGroupId = inst[1].recurrenceGroupId
                        /\ inst[k].title.occurrence = k
                        /\ k > 1 => inst[k - 1].weekId < inst[k].weekId
               ELSE \A k \in 1..Len(inst) :
                        /\ inst[k].recurrenceGroupId = NoGroup
                        /\ inst[k].title.occurrence = 0
        /\ \A a, b \in 1..Len(probe.finalTasks) :
            (/\ probe.finalTasks[a].planTaskId # probe.finalTasks[b].planTaskId
             /\ probe.finalTasks[a].recurrenceGroupId # NoGroup)
            => probe.finalTasks[a].recurrenceGroupId # probe.finalTasks[b].recurrenceGroupId

\* an expansion has ended with two recurring entries of two instances or more
\* each
GroupsWitness ==
    /\ WizardDone
    /\ \E i, j \in 1..Len(probe.selectedDrafts) :
        /\ i # j
        /\ Len(TasksOf(probe.selectedDrafts[i])) >= 2
        /\ Len(TasksOf(probe.selectedDrafts[j])) >= 2

-----------------------------------------------------------------------------
(* TableAiAssistant and App.tsx handleAiActionConfirmed.  The assistant's   *)
(* panel floats over the board: an action it proposes stays pending while   *)
(* the board and its modals are used, until it is confirmed or dismissed.   *)
(* getTableAction returns JSON.parse of the service's text: payload fields  *)
(* are whatever the service wrote.                                          *)

\* an id string that names no experiment of the store
StrangerId == MaxExperiments + 1

\* payload.weekOffset and the weekday of `new Date()`
AiWeekOffsets == {0, 1}
Today == 0..6

\* the actions getTableAction may resolve to; 0 stands for an absent
\* payload.experimentId or payload.taskId
AiActions ==
    {[action |-> "add_task", experimentId |-> e, taskId |-> 0, weekOffset |-> o] :
        e \in ExperimentIds \cup {0, StrangerId}, o \in AiWeekOffsets}
    \cup
    {[action |-> "delete_task", experimentId |-> 0, taskId |-> id, weekOffset |-> 0] :
        id \in TaskIds \cup {0}}
    \cup
    {[action |-> "query", experimentId |-> 0, taskId |-> 0, weekOffset |-> 0]}

\* payload.experimentId || data.experiments[0]?.id (0: undefined)
AiTargetExperiment(cur, payload) ==
    IF payload.experimentId # 0 THEN payload.experimentId
    ELSE IF Len(cur.experiments) > 0 THEN cur.experiments[1].id ELSE 0

\* TRUE where handleAiActionConfirmed appends a task
AiAddsTask(cur, aiAction) ==
    aiAction.action = "add_task" /\ AiTargetExperiment(cur, aiAction) # 0

\* id is the generateUUID() of the new task, now the `new Date()` of the call
handleAiActionConfirmed(cur, aiAction, id, now) ==
    IF aiAction.action = "add_task"
    THEN LET expId == AiTargetExperiment(cur, aiAction)
         IN IF expId = 0 THEN cur
            ELSE [cur EXCEPT !.tasks =
                    Append(cur.tasks,
                           [id |-> id, experimentId |-> expId,
                            weekId |-> normalizeToSunday(addWeeks(now, aiAction.weekOffset)),
                            completed |-> FALSE, dependencies |-> <<>>])]
    ELSE IF aiAction.action = "delete_task" /\ aiAction.taskId # 0
         THEN handleDeleteTask(cur, aiAction.taskId)
         ELSE cur

InitAssistant ==
    /\ data = EmptyData
    /\ storage = EmptyData
    /\ view = "board"
    /\ editedTask = NoTask
    /\ selectedExperiment = NoExperiment
    /\ isEditingPlan = FALSE
    /\ planRows = <<>>
    /\ rowEdits = 0
    /\ importCandidate = NoCandidate
    /\ alert = ""
    /\ lastOp = NoOp
    /\ uuid = [task |-> 0, experiment |-> 0]
    /\ session = [tasks |-> MaxTasks, experiments |-> MaxExperiments,
                  quickEdit |-> FALSE, import |-> FALSE]
    /\ pendingAction = NoAction
    /\ cloud = NoCloud
    /\ probe = NoProbe

\* TableAiAssistant.handleSubmit with an answer other than 'none'
AiSubmit ==
    /\ view = "board"
    /\ pendingAction = NoAction
    /\ cloud = NoCloud
    /\ pendingAction' \in AiActions
    /\ alert' = ""
    /\ lastOp' = NoOp
    /\ UNCHANGED <<data, storage, view, editedTask, DetailsVars, importCandidate,
                   uuid, session, cloud, probe>>

\* the confirm button: onActionConfirmed(pendingAction); setPendingAction(null)
AiConfirm ==
    /\ view = "board"
    /\ pendingAction # NoAction
    /\ pendingAction.action # "query"
    /\ IF AiAddsTask(data, pendingAction)
       THEN /\ uuid.task < session.tasks
            /\ \E now \in Today :
                 SetData(handleAiActionConfirmed(data, pendingAction, uuid.task + 1, now))
            /\ uuid' = [uuid EXCEPT !.task = uuid.task + 1]
       ELSE /\ SetData(handleAiActionConfirmed(data, pendingAction, 0, 0))
            /\ UNCHANGED uuid
    /\ pendingAction' = NoAction
    /\ alert' = ""
    /\ lastOp' = NoOp
    /\ UNCHANGED <<view, editedTask, DetailsVars, importCandidate, session, cloud, probe>>

\* the cancel, close-answer and X buttons: setPendingAction(null)
AiDismiss ==
    /\ view = "board"
    /\ pendingAction # NoAction
    /\ pendingAction' = NoAction
    /\ alert' = ""
    /\ lastOp' = NoOp
    /\ UNCHANGED <<data, storage, view, editedTask, DetailsVars, importCandidate,
                   uuid, session, cloud, probe>>

NextAssistant ==
    \/ WizardFinish
    \/ OpenExperiment
    \/ CloseDetails
    \/ ResetTasks
    \/ DeleteExperiment
    \/ AiSubmit
    \/ AiConfirm
    \/ AiDismiss

SpecAssistant == InitAssistant /\ [][NextAssistant]_vars

-----------------------------------------------------------------------------
(* Properties of the assistant's actions (under SpecAssistant) *)

\* C20: every stored task belongs to an experiment of the store, also after
\* an experiment delete and after a confirmed 'add_task' action whose payload
\* names an experimentId.
TasksBelongToExperiments ==
    \A store \in Stores :
        \A i \in 1..Len(store.tasks) :
            \E j \in 1..Len(store.experiments) :
                store.experiments[j].id = store.tasks[i].experimentId

-----------------------------------------------------------------------------
(* Import of raw files: handleImportJson with its try/catch around          *)
(* JSON.parse and validateAndMigrateAppData, and handleReplaceImport.       *)

MaxImportTasks == 2
MaxFreshIds == 2
\* files read in one run of the app
MaxReads == 2

\* ids written in files; the ids generateUUID hands out never equal them
FileExperimentIds == {11, 12}
FileTaskIds == {21, 22}
\* a task record of a file that carries no id
NoId == 0

FileExperiment(id) == [id |-> id, startDate |-> 0, endDate |-> EmptyDate]

FileExperimentLists == {<<FileExperiment(11)>>,
                        <<FileExperiment(11), FileExperiment(12)>>}

FileTaskRecords ==
    [id : FileTaskIds \cup {NoId}, experimentId : FileExperimentIds,
     weekId : {0}, completed : {FALSE},
     dependencies : {<<>>, <<22>>}]

FileTaskLists ==
    UNION {[1..n -> FileTaskRecords] : n \in 0..MaxImportTasks}

\* what JSON.parse gives for the chosen file: an object with both arrays, or
\* something the structure check refuses
RawFiles ==
    [isObject : {TRUE}, experimentsIsArray : {TRUE}, tasksIsArray : {TRUE},
     experiments : FileExperimentLists, tasks : FileTaskLists]
    \cup
    { [isObject |-> o, experimentsIsArray |-> e, tasksIsArray |-> t,
       experiments |-> <<FileExperiment(11)>>, tasks |-> <<>>] :
        <<o, e, t>> \in {<<FALSE, FALSE, FALSE>>, <<TRUE, FALSE, TRUE>>,
                         <<TRUE, TRUE, FALSE>>} }

\* the three throws of validateAndMigrateAppData
ImportRejected(imported) ==
    \/ ~imported.isObject
    \/ ~imported.experimentsIsArray
    \/ ~imported.tasksIsArray

\* the number of records of tasks[1..i] that carry no id
RECURSIVE MissingIds(_, _)
MissingIds(tasks, i) ==
    IF i = 0 THEN 0
    ELSE MissingIds(tasks, i - 1) + (IF tasks[i].id = NoId THEN 1 ELSE 0)

\* const tId = t.id || generateUUID(), with firstNew the counter before the call
WithTaskIds(tasks, firstNew) ==
    [i \in 1..Len(tasks) |->
        IF tasks[i].id = NoId
        THEN [tasks[i] EXCEPT !.id = firstNew + MissingIds(tasks, i)]
        ELSE tasks[i]]

InitImport ==
    /\ data = EmptyData
    /\ storage = EmptyData
    /\ view = "board"
    /\ editedTask = NoTask
    /\ selectedExperiment = NoExperiment
    /\ isEditingPlan = FALSE
    /\ planRows = <<>>
    /\ rowEdits = 0
    /\ importCandidate = NoCandidate
    /\ alert = ""
    /\ lastOp = NoOp
    /\ uuid = [task |-> 0, experiment |-> 0]
    /\ session \in {s \in Sessions : s.import}
    /\ pendingAction = NoAction
    /\ cloud = NoCloud
    /\ probe = [fn |-> "none", reads |-> 0]

\* reader.onload of handleImportJson for one file: the file is validated and
\* becomes the import candidate, or the error is alerted and nothing else
\* happens
ReadFile(file) ==
    LET missing == IF ImportRejected(file) THEN 0
                   ELSE MissingIds(file.tasks, Len(file.tasks))
    IN /\ view = "board"
       /\ uuid.task + missing <= MaxFreshIds
       /\ IF ImportRejected(file)
          THEN /\ alert' = "importError"
               /\ UNCHANGED <<importCandidate, view>>
          ELSE /\ importCandidate' =
                    [present |-> TRUE,
                     data |-> validateAndMigrateAppData(
                                 [file EXCEPT !.tasks = WithTaskIds(file.tasks, uuid.task)])]
               /\ view' = "import"
               /\ alert' = ""
       /\ uuid' = [uuid EXCEPT !.task = uuid.task + missing]
       /\ lastOp' = Op("handleImportJson", ~ImportRejected(file))
       /\ UNCHANGED <<data, storage, editedTask, DetailsVars, session, pendingAction, cloud>>

ImportRawFile ==
    /\ probe.reads < MaxReads
    /\ \E file \in RawFiles :
        /\ ReadFile(file)
        /\ probe' = [fn |-> "handleImportJson", file |-> file,
                     firstNew |-> uuid.task, reads |-> probe.reads + 1]

\* handleReplaceImport
ReplaceImport ==
    /\ view = "import"
    /\ importCandidate.present
    /\ SetData(importCandidate.data)
    /\ importCandidate' = NoCandidate
    /\ view' = "board"
    /\ lastOp' = Op("handleReplaceImport", TRUE)
    /\ alert' = "replaceSuccess"
    /\ UNCHANGED <<editedTask, DetailsVars, uuid, session, pendingAction, cloud, probe>>

NextImport ==
    \/ ImportRawFile
    \/ ReplaceImport
    \/ CancelImport

SpecImport == InitImport /\ [][NextImport]_vars

-----------------------------------------------------------------------------
(* Properties of the import (under SpecImport) *)

ImportCalled == lastOp.name = "handleImportJson"

\* the records of the file just read, each with the id the sanitizer gave it
ReadTasks == WithTaskIds(probe.file.tasks, probe.firstNew)

ReadExperimentIds ==
    {probe.file.experiments[i].id : i \in 1..Len(probe.file.experiments)}

\* the data returned for the file just read: distinct task ids, each kept
\* task is the first record of the file with its id and names a returned
\* experiment, and every such first record is kept
ImportOutputSanitized ==
    ImportCalled /\ lastOp.ok =>
        LET kept == importCandidate.data.tasks
            exps == importCandidate.data.experiments
        IN /\ importCandidate.present
           /\ \A i, j \in 1..Len(kept) : kept[i].id = kept[j].id => i = j
           /\ \A i \in 1..Len(kept) :
                /\ \E e \in 1..Len(exps) : exps[e].id = kept[i].experimentId
                /\ \E k \in 1..Len(ReadTasks) :
                    /\ ReadTasks[k] = kept[i]
                    /\ \A l \in 1..(k - 1) : ReadTasks[l].id # kept[i].id
           /\ \A k \in 1..Len(ReadTasks) :
                (/\ ReadTasks[k].experimentId \in ReadExperimentIds
                 /\ \A l \in 1..(k - 1) : ReadTasks[l].id # ReadTasks[k].id)
                => \E i \in 1..Len(kept) : kept[i] = ReadTasks[k]

\* a step that reads a file outside the accepted structure alerts the error
\* and leaves the candidate and both copies of the store as they were
RejectedImportChangesNothing ==
    lastOp'.name = "handleImportJson" =>
        /\ lastOp'.ok <=> ~ImportRejected(probe'.file)
        /\ ~lastOp'.ok =>
            /\ alert' = "importError"
            /\ importCandidate' = importCandidate
            /\ ~importCandidate'.present
            /\ data' = data
            /\ storage' = storage

\* C21: the data validateAndMigrateAppData returns has pairwise distinct task
\* ids (of the records sharing an id only the first is kept) and no task
\* whose experiment is not among the returned experiments; an input that is
\* no object or lacks the experiments or the tasks array is refused with the
\* error alert and nothing is imported.
ImportIsSanitized ==
    /\ []ImportOutputSanitized
    /\ [][RejectedImportChangesNothing]_vars

\* a file whose two records share an id was read over a store filled by an
\* earlier replace import: one record is kept
DuplicateDroppedWitness ==
    /\ ImportCalled /\ lastOp.ok
    /\ Len(probe.file.tasks) = 2
    /\ probe.file.tasks[1].id = probe.file.tasks[2].id
    /\ probe.file.tasks[1].id # NoId
    /\ Len(importCandidate.data.tasks) = 1
    /\ Len(data.tasks) >= 1

\* a file without the tasks array was refused while the store held tasks
RefusedWitness ==
    /\ ImportCalled /\ ~lastOp.ok
    /\ ~probe.file.tasksIsArray
    /\ Len(data.tasks) >= 1

\* C22: every dependency id of a task kept by validateAndMigrateAppData names
\* a kept task of the same experiment, in the candidate and, after
\* handleReplaceImport, in the store.
ImportedDependenciesResolve ==
    /\ importCandidate.present =>
        \A i \in 1..Len(importCandidate.data.tasks) :
            \A d \in Range(importCandidate.data.tasks[i].dependencies) :
                \E j \in 1..Len(importCandidate.data.tasks) :
                    /\ importCandidate.data.tasks[j].id = d
                    /\ importCandidate.data.tasks[j].experimentId =
                           importCandidate.data.tasks[i].experimentId
    /\ DependenciesResolveInExperiment

-----------------------------------------------------------------------------
(* The board's task modal as a frame (under Spec) *)

\* the task in the modal is a draft of handleAddTask: no stored task has its id
IsDraft == view = "task" /\ editedTask.id \notin TaskIds

\* C26: a step of handleAddTask leaves the store as it is and puts a draft in
\* the modal; saving the draft from the task modal appends exactly that task,
\* keeps every stored task and every experiment; closing the modal or deleting
\* from it while the draft is unsaved leaves tasks and experiments unchanged.
DraftEntersStoreOnSave ==
    [][/\ lastOp'.name = "handleAddTask" =>
            /\ data' = data /\ storage' = storage
            /\ editedTask'.id \notin TaskIds
            /\ editedTask'.dependencies = <<>>
            /\ ~editedTask'.completed
       /\ IsDraft /\ lastOp'.name = "handleUpdateTask" =>
            /\ data'.tasks = Append(data.tasks, editedTask)
            /\ data'.experiments = data.experiments
            /\ storage' = data'
       /\ IsDraft /\ lastOp'.name \in {"onClose", "handleDeleteTask"} =>
            /\ data' = data /\ storage' = storage
            /\ editedTask' = NoTask]_vars

\* a draft with a dependency was saved into a store that held a task
DraftSavedWitness ==
    /\ lastOp.name = "handleUpdateTask"
    /\ Len(data.tasks) = 2
    /\ data.tasks[2].id = uuid.task
    /\ data.tasks[2].dependencies # <<>>


\* C27: a step of handleTaskModalSave (the task modal opened inside the
\* details modal) changes only the saved task: every experiment record keeps
\* its value, also an endDate a timeline shift of the same details session
\* moved, and every other task stays as it was.
DetailsTaskSaveChangesOnlyTheTask ==
    [][lastOp'.name = "handleTaskModalSave" =>
        /\ data'.experiments = data.experiments
        /\ \A i \in 1..Len(data.tasks) :
            data.tasks[i].id # editedTask.id =>
                \E j \in 1..Len(data'.tasks) : data'.tasks[j] = data.tasks[i]
        /\ \A j \in 1..Len(data'.tasks) :
            \/ data'.tasks[j] = editedTask
            \/ \E i \in 1..Len(data.tasks) : data.tasks[i] = data'.tasks[j]]_vars

-----------------------------------------------------------------------------
(* The store under every handler that writes tasks: the handlers of Spec    *)
(* with the files read by handleImportJson replaced or merged.              *)

StoreSession == [tasks |-> 1, experiments |-> 1, quickEdit |-> TRUE, import |-> TRUE]

\* a file whose two records share an id, small enough to be merged as well
StoreFiles ==
    { [isObject |-> TRUE, experimentsIsArray |-> TRUE, tasksIsArray |-> TRUE,
       experiments |-> <<FileExperiment(11)>>,
       tasks |-> <<[id |-> 21, experimentId |-> 11, weekId |-> 0,
                    completed |-> FALSE, dependencies |-> <<>>],
                   [id |-> 21, experimentId |-> 11, weekId |-> 7,
                    completed |-> FALSE, dependencies |-> <<>>]>>] }

InitStore ==
    /\ data = EmptyData
    /\ storage = EmptyData
    /\ view = "board"
    /\ editedTask = NoTask
    /\ selectedExperiment = NoExperiment
    /\ isEditingPlan = FALSE
    /\ planRows = <<>>
    /\ rowEdits = 0
    /\ importCandidate = NoCandidate
    /\ alert = ""
    /\ lastOp = NoOp
    /\ uuid = [task |-> 0, experiment |-> 0]
    /\ session = StoreSession
    /\ pendingAction = NoAction
    /\ cloud = NoCloud
    /\ probe = NoProbe

ImportStoreFile ==
    /\ \E file \in StoreFiles : ReadFile(file)
    /\ UNCHANGED probe

NextStore ==
    \/ WizardFinish
    \/ BoardAddTask
    \/ BoardEditTask
    \/ OpenExperiment
    \/ EditCompleted
    \/ AddDependency
    \/ RemoveDependency
    \/ TaskSave
    \/ DetailsTaskSave
    \/ TaskClose
    \/ TaskDelete
    \/ DetailsTaskDelete
    \/ Shift
    \/ ResetTasks
    \/ DeleteExperiment
    \/ StartQuickEdit
    \/ RowChange
    \/ SavePlan
    \/ DetailsSave
    \/ OpenAddTask
    \/ OpenEditTask
    \/ CloseDetails
    \/ ImportStoreFile
    \/ MergeImport
    \/ ReplaceImport
    \/ CancelImport

SpecStore == InitStore /\ [][NextStore]_vars

\* C28: in every reachable state the ids of the stored tasks are pairwise
\* distinct, in the app state and in local storage, whatever sequence of
\* wizard saves, task-modal saves, details-modal saves, deletes, merge imports
\* and replace imports led there (generateUUID never repeats an id).
TaskIdsDistinct ==
    \A store \in Stores :
        \A i, j \in 1..Len(store.tasks) :
            store.tasks[i].id = store.tasks[j].id => i = j

\* tasks of a replaced file, a merged file and the task modal side by side
MixedStoreWitness ==
    /\ \E i \in 1..Len(data.tasks) : data.tasks[i].id \in FileTaskIds
    /\ \E i \in 1..Len(data.tasks) : data.tasks[i].id \notin FileTaskIds
    /\ Len(data.experiments) = 2


-----------------------------------------------------------------------------
(* The order of dependencies in time (under Spec) *)

\* C29: in every reachable state each dependency of a stored task is a task
\* scheduled in a strictly earlier week than the task itself, also after
\* timeline shifts and plan quick-edits.
DependenciesAreEarlier ==
    \A store \in Stores :
        \A i, j \in 1..Len(store.tasks) :
            Includes(store.tasks[i].dependencies, store.tasks[j].id) =>
                WeekOf(store.tasks[j].weekId) < WeekOf(store.tasks[i].weekId)


-----------------------------------------------------------------------------
(* Two timeline shifts in a row on drawn stores whose week ids are Sundays  *)

MaxShift == 2
MaxShiftTasks == 2

ShiftAmounts == (0 - MaxShift)..MaxShift

ShiftTaskRecords ==
    [experimentId : 1..2, weekId : Weeks, completed : BOOLEAN, dependencies : {<<>>}]

\* the task at index i carries the id i
ShiftTaskLists ==
    UNION { { [i \in 1..n |-> [id |-> i,
                               experimentId |-> f[i].experimentId,
                               weekId |-> f[i].weekId,
                               completed |-> f[i].completed,
                               dependencies |-> f[i].dependencies]] :
                f \in [1..n -> ShiftTaskRecords] } : n \in 0..MaxShiftTasks }

ShiftStores ==
    [experiments : {<<[id |-> 1, startDate |-> 0, endDate |-> e],
                      [id |-> 2, startDate |-> 0, endDate |-> EmptyDate]>> :
                        e \in DateInputs},
     tasks : ShiftTaskLists]

InitShift ==
    /\ data \in ShiftStores
    /\ storage = data
    /\ view = "details"
    /\ editedTask = NoTask
    /\ selectedExperiment = data.experiments[1]
    /\ isEditingPlan = FALSE
    /\ planRows = <<>>
    /\ rowEdits = 0
    /\ importCandidate = NoCandidate
    /\ alert = ""
    /\ lastOp = NoOp
    /\ uuid = [task |-> Len(data.tasks), experiment |-> 2]
    /\ session \in {s \in Sessions : ~s.import}
    /\ pendingAction = NoAction
    /\ cloud = NoCloud
    /\ \E a, b \in ShiftAmounts :
        probe = [fn |-> "handleShiftExperimentTimeline", original |-> data,
                 a |-> a, b |-> b, calls |-> 0]

\* onShiftTimeline(experiment.id, n) and the alert of handleShift
CallShift(n) ==
    /\ SetData(handleShiftExperimentTimeline(data, selectedExperiment.id, n))
    /\ alert' = "timelineUpdateSuccess"
    /\ lastOp' = Op("handleShiftExperimentTimeline", TRUE)
    /\ probe' = [probe EXCEPT !.calls = probe.calls + 1]
    /\ UNCHANGED <<view, editedTask, DetailsVars, importCandidate, uuid, session,
                   pendingAction, cloud>>

ShiftFirst == probe.calls = 0 /\ CallShift(probe.a)

ShiftSecond == probe.calls = 1 /\ CallShift(probe.b)

NextShift == ShiftFirst \/ ShiftSecond

SpecShift == InitShift /\ [][NextShift]_vars

\* C30: after a shift by a weeks and then a shift by b weeks of the same
\* experiment, with Sunday week ids and no completed flag changed in between,
\* every task's weekId is what one shift by a + b weeks of the original store
\* gives: the original weekId plus a + b weeks for the experiment's tasks that
\* are not completed, the original weekId for the others; so +n then -n
\* restores every weekId.
ShiftsCompose ==
    probe.calls = 2 =>
        LET once == handleShiftExperimentTimeline(probe.original, selectedExperiment.id,
                                                   probe.a + probe.b)
        IN /\ Len(data.tasks) = Len(probe.original.tasks)
           /\ \A i \in 1..Len(data.tasks) :
                LET t == probe.original.tasks[i]
                IN /\ data.tasks[i].weekId = once.tasks[i].weekId
                   /\ data.tasks[i].weekId =
                        IF t.experimentId = selectedExperiment.id /\ ~t.completed
                        THEN t.weekId + 7 * (probe.a + probe.b)
                        ELSE t.weekId
                   /\ probe.a + probe.b = 0 => data.tasks[i].weekId = t.weekId
                   /\ [data.tasks[i] EXCEPT !.weekId = t.weekId] = t

\* a shift back and then forward again over a store with a task that moved
\* before the first modelled week, next to a completed task and a task of
\* the other experiment
ShiftedBackAndForthWitness ==
    /\ probe.calls = 2
    /\ probe.a < 0 /\ probe.b = 0 - probe.a
    /\ \E i \in 1..Len(data.tasks) :
        /\ data.tasks[i].experimentId = selectedExperiment.id
        /\ ~data.tasks[i].completed
        /\ data.tasks[i].weekId + 7 * probe.a < 0
    /\ \E i \in 1..Len(data.tasks) :
        data.tasks[i].completed \/ data.tasks[i].experimentId # selectedExperiment.id


-----------------------------------------------------------------------------
(* Cloud sync: App's sync effect (initSync and its cleanup), its save       *)
(* effect, and firebaseService's loadUserData, saveUserData (setDoc with    *)
(* merge) and subscribeToUserData (onSnapshot).  A run is one call of       *)
(* initSync for a signed-in user; it is cleaned once the cleanup of its     *)
(* effect has run.  A listener is notified when it is attached and when     *)
(* its document changes.                                                    *)

MaxSignIns == 2
MaxLocalEdits == 1

Uids == {1, 2}

NoDoc == [exists |-> FALSE, value |-> EmptyData]

\* the document another session of the user left in the cloud
CloudData(u) ==
    [experiments |-> <<[id |-> 10 + u, startDate |-> 0, endDate |-> EmptyDate]>>,
     tasks |-> <<>>]

\* the same with a field validateAndMigrateAppData does not return
CloudDataWithSummaries(u) ==
    [experiments |-> CloudData(u).experiments, tasks |-> <<>>, savedSummaries |-> <<1>>]

CloudDocs(u) ==
    {NoDoc, [exists |-> TRUE, value |-> CloudData(u)],
     [exists |-> TRUE, value |-> CloudDataWithSummaries(u)]}

\* what the guest left in local storage
GuestData ==
    [experiments |-> <<[id |-> 1, startDate |-> 0, endDate |-> EmptyDate]>>,
     tasks |-> <<>>]

\* setDoc(userRef, data, {merge: true}): the fields of data replace those of
\* the document, its other fields stay
saveUserData(doc, d) ==
    [exists |-> TRUE,
     value  |-> IF doc.exists
                THEN [f \in DOMAIN doc.value \cup DOMAIN d |->
                        IF f \in DOMAIN d THEN d[f] ELSE doc.value[f]]
                ELSE d]

\* the user a step's run was started for, and whether the cleanup of that
\* run's effect had run before the step
OriginOf(run) == [uid |-> run.uid, stale |-> run.cleaned]
NoOrigin == [uid |-> 0, stale |-> FALSE]

InitSync ==
    /\ data \in {EmptyData, GuestData}
    /\ storage = data
    /\ view = "board"
    /\ editedTask = NoTask
    /\ selectedExperiment = NoExperiment
    /\ isEditingPlan = FALSE
    /\ planRows = <<>>
    /\ rowEdits = 0
    /\ importCandidate = NoCandidate
    /\ alert = ""
    /\ lastOp = NoOp
    /\ uuid = [task |-> 0, experiment |-> 1]
    /\ session \in {s \in Sessions : ~s.import}
    /\ pendingAction = NoAction
    /\ probe = NoProbe
    /\ \E docs \in [Uids -> UNION {CloudDocs(u) : u \in Uids}] :
        /\ \A u \in Uids : docs[u] \in CloudDocs(u)
        /\ cloud = [user |-> 0, isCloudSynced |-> FALSE, docs |-> docs,
                    runs |-> <<>>, subs |-> {}, wrote |-> {}, loaded |-> 0,
                    origin |-> NoOrigin]

SyncUnchanged ==
    UNCHANGED <<view, editedTask, DetailsVars, importCandidate, alert, session,
                pendingAction, probe>>

\* One commit of App: the state after the step's setState calls, and the save
\* effect where one of its deps changed.  effectSynced is the isCloudSynced
\* the effect sees, docs1 the documents after the step's own saveUserData
\* calls (to the users in direct), origin the run the step belongs to.
Commit(newData, depsChanged, user2, effectSynced, synced2, docs1, runs2, subs1, direct, loaded2, origin2) ==
    LET toLocal == depsChanged /\ user2 = 0
        toCloud == depsChanged /\ user2 # 0 /\ effectSynced
        docs2 == IF toCloud
                 THEN [docs1 EXCEPT ![user2] = saveUserData(docs1[user2], newData)]
                 ELSE docs1
    IN /\ data' = newData
       /\ storage' = IF toLocal THEN newData ELSE storage
       /\ cloud' = [user |-> user2, isCloudSynced |-> synced2, docs |-> docs2,
                    runs |-> runs2,
                    subs |-> {[s EXCEPT !.pending =
                                  s.pending \/ docs2[s.uid] # cloud.docs[s.uid]] :
                              s \in subs1},
                    wrote |-> direct \cup (IF toCloud THEN {user2} ELSE {}),
                    loaded |-> loaded2, origin |-> origin2]

CurrentRun == Len(cloud.runs)

\* onAuthStateChanged(user): the sync effect starts initSync, which calls
\* setIsCloudSynced(false) and awaits loadUserData; the save effect of the
\* same commit still sees the isCloudSynced of before
SignIn(u) ==
    /\ cloud.user = 0
    /\ Len(cloud.runs) < MaxSignIns
    /\ Commit(data, TRUE, u, cloud.isCloudSynced, FALSE, cloud.docs,
              Append(cloud.runs, [uid |-> u, pc |-> "loading", cleaned |-> FALSE]),
              cloud.subs, {}, 0, NoOrigin)
    /\ lastOp' = Op("signIn", TRUE)
    /\ UNCHANGED uuid
    /\ SyncUnchanged

\* AuthContext.signOut: the cleanup of the sync effect unsubscribes the
\* listener the run has attached so far; the effect's guest branch sets
\* isCloudSynced to false and the data to what local storage holds, which is
\* nothing once signOut has removed the item, and the old item before that
SignOut ==
    /\ cloud.user # 0
    /\ \E local \in {EmptyData, storage} :
        /\ Commit(local, TRUE, 0, FALSE, FALSE, cloud.docs,
                  [cloud.runs EXCEPT ![CurrentRun].cleaned = TRUE],
                  {s \in cloud.subs : s.run # CurrentRun}, {}, 0, NoOrigin)
    /\ lastOp' = Op("signOut", TRUE)
    /\ UNCHANGED uuid
    /\ SyncUnchanged

\* loadUserData of run r resolves: with the document (case A), or with null
\* (case B: the current data is saved as the user's document)
LoadResolves(r) ==
    LET run == cloud.runs[r]
        doc == cloud.docs[run.uid]
        runs2 == [cloud.runs EXCEPT ![r].pc = "subscribing"]
        loaded2 == IF run.cleaned THEN cloud.loaded ELSE run.uid
    IN /\ run.pc = "loading"
       /\ IF doc.exists
          THEN Commit(validateAndMigrateAppData(doc.value), TRUE, cloud.user, TRUE,
                      TRUE, cloud.docs, runs2, cloud.subs, {}, loaded2, OriginOf(run))
          ELSE Commit(data, ~cloud.isCloudSynced, cloud.user, TRUE, TRUE,
                      [cloud.docs EXCEPT ![run.uid] = saveUserData(doc, data)],
                      runs2, cloud.subs, {run.uid}, loaded2, OriginOf(run))
       /\ lastOp' = Op("loadUserData", TRUE)
       /\ UNCHANGED uuid
       /\ SyncUnchanged

\* loadUserData of run r rejects: the catch branch sets isCloudSynced to true
LoadFails(r) ==
    LET run == cloud.runs[r]
    IN /\ run.pc = "loading"
       /\ Commit(data, ~cloud.isCloudSynced, cloud.user, TRUE, TRUE, cloud.docs,
                 [cloud.runs EXCEPT ![r].pc = "done"], cloud.subs, {},
                 cloud.loaded, OriginOf(run))
       /\ lastOp' = Op("loadUserData", FALSE)
       /\ UNCHANGED uuid
       /\ SyncUnchanged

\* after `await import`: unsubscribe = subscribeToUserData(uid, callback).  The
\* cleanup of a cleaned run has run already and will not call unsubscribe.
Subscribes(r) ==
    LET run == cloud.runs[r]
    IN /\ run.pc = "subscribing"
       /\ Commit(data, FALSE, cloud.user, cloud.isCloudSynced, cloud.isCloudSynced,
                 cloud.docs, [cloud.runs EXCEPT ![r].pc = "done"],
                 cloud.subs \cup {[uid |-> run.uid, run |-> r,
                                   pending |-> cloud.docs[run.uid].exists]},
                 {}, cloud.loaded, OriginOf(run))
       /\ lastOp' = Op("subscribeToUserData", TRUE)
       /\ UNCHANGED uuid
       /\ SyncUnchanged

\* the onSnapshot callback of a listener: setData(prev => JSON.stringify(prev)
\* === JSON.stringify(newData) ? prev : validateAndMigrateAppData(newData))
Snapshot(s) ==
    LET newData == cloud.docs[s.uid].value
        same == data = newData
    IN /\ s.pending
       /\ Commit(IF same THEN data ELSE validateAndMigrateAppData(newData), ~same,
                 cloud.user, cloud.isCloudSynced, cloud.isCloudSynced, cloud.docs,
                 cloud.runs,
                 (cloud.subs \ {s}) \cup {[s EXCEPT !.pending = FALSE]},
                 {}, cloud.loaded, OriginOf(cloud.runs[s.run]))
       /\ lastOp' = Op("onSnapshot", ~same)
       /\ UNCHANGED uuid
       /\ SyncUnchanged

\* a local change of the board: handleSaveExperiment with an experiment of the
\* wizard that has no tasks
LocalEdit ==
    /\ uuid.experiment < 1 + MaxLocalEdits
    /\ Commit([data EXCEPT !.experiments =
                  Append(@, [id |-> uuid.experiment + 1, startDate |-> 0,
                             endDate |-> EmptyDate])],
              TRUE, cloud.user, cloud.isCloudSynced, cloud.isCloudSynced,
              cloud.docs, cloud.runs, cloud.subs, {}, cloud.loaded, NoOrigin)
    /\ uuid' = [uuid EXCEPT !.experiment = uuid.experiment + 1]
    /\ lastOp' = Op("handleSaveExperiment", TRUE)
    /\ SyncUnchanged

SignInAny == \E u \in Uids : SignIn(u)

LoadResolve == \E r \in 1..Len(cloud.runs) : LoadResolves(r)

LoadFail == \E r \in 1..Len(cloud.runs) : LoadFails(r)

Subscribe == \E r \in 1..Len(cloud.runs) : Subscribes(r)

SnapshotArrives == \E s \in cloud.subs : Snapshot(s)

NextSync ==
    \/ SignInAny
    \/ SignOut
    \/ LoadResolve
    \/ LoadFail
    \/ Subscribe
    \/ SnapshotArrives
    \/ LocalEdit

SpecSync == InitSync /\ [][NextSync]_vars


-----------------------------------------------------------------------------
(* Properties of the cloud sync (under SpecSync) *)

\* C23: while a user is signed in, a step writes the app state to that user's
\* cloud document only if the initial loadUserData of this sign-in has
\* completed successfully (with the document or with 'no document'); a load
\* that failed or is still pending never leads to such a write.
SavesFollowSuccessfulLoad ==
    cloud.user # 0 /\ cloud.user \in cloud.wrote => cloud.loaded = cloud.user

\* C24: a step of a run whose user has changed or signed out since (a pending
\* loadUserData that resolves, the listener the run attaches, a snapshot that
\* listener hears) leaves the app state and local storage as they are.
StaleRunsChangeNothing ==
    [][cloud'.origin.stale => data' = data /\ storage' = storage]_vars

\* C25: a snapshot whose content, as validateAndMigrateAppData returns it,
\* equals the app state leaves the state as it is and causes no write to a
\* cloud document or to local storage, also where the document carries a
\* field such as savedSummaries that validation drops.
EqualSnapshotIsSilent ==
    [][(/\ lastOp'.name = "onSnapshot"
        /\ validateAndMigrateAppData(cloud.docs[cloud'.origin.uid].value) = data)
       => /\ data' = data
          /\ cloud'.wrote = {}
          /\ cloud'.docs = cloud.docs
          /\ lastOp'.ok = FALSE]_vars

=============================================================================
